---- MODULE Spec2Model ----
(***************************************************************************)
(* A model of the Glyph knowledge-graph engine                             *)
(* (src/Sources/Glyph/knowledge_graph_generation.py): the graph builder,   *)
(* the minimal-subgraph extractor, the topic-relevance filter and the      *)
(* concept deduplicator.                                                   *)
(*                                                                         *)
(* Python strings are sequences of one-character strings; Python dicts and *)
(* networkx graphs keep their insertion order, so they are modelled as a   *)
(* sequence of keys plus a function on those keys.                         *)
(***************************************************************************)
EXTENDS Integers, Sequences, FiniteSets, TLC

VARIABLES
    pc,                 \* position inside KnowledgeGraphBuilder.build_graph_from_sources
    sources,            \* the `sources` argument: a list of [content, title]
    topic,              \* the `topic` argument
    all_nodes,          \* concepts + entities handed over by the extraction step
    graph,              \* self.graph, a networkx DiGraph
    centrality_scores,  \* self.centrality_scores
    minimal_subgraph,   \* self.minimal_subgraph: None, or a networkx DiGraph
    components,         \* _find_minimal_subgraph's local: list(nx.connected_components(mst_graph))
    mst_edges,          \* _find_minimal_subgraph's local: the (combined) spanning tree
    component_connectors, \* _find_minimal_subgraph's local, after its sort
    subgraph_path,      \* how the last _find_minimal_subgraph call ended
    topic_config,       \* self.topic_config, a TopicRelevanceConfig
    sentence_transformer, \* whether self.sentence_transformer was loaded (not None)
    SKLEARN_AVAILABLE,  \* the module flag set by the guarded sklearn import
    current_node_count, \* the node count on entry to _filter_nodes_by_topic_relevance
    relevance_scores,   \* _filter_nodes_by_topic_relevance's local of that name
    filter_path,        \* how the last _filter_nodes_by_topic_relevance call ended
    concepts,           \* the argument of deduplicate_learning_concepts
    deduplicated,       \* what deduplicate_learning_concepts(concepts) returned
    rerun,              \* what deduplicate_learning_concepts(deduplicated) returned
    dedup_calls,        \* how many of the two calls have returned
    entry,              \* the function the caller called
    result,             \* what build_graph_from_sources, or the entry function, returned
    state,              \* the SourceCollectionState of the workflow run
    node,               \* the workflow node that runs next
    route,              \* what should_continue returned last
    pool,               \* the ThreadPoolExecutor of the node at work and its tasks
    fallback_results,   \* what run_sequential_fallback returned
    progress_updates,   \* the values _update_progress was called with, in order
    source_index        \* _extract_concepts_and_entities's loop variable i

builderVars == <<pc, sources, topic, all_nodes, graph, centrality_scores,
                 minimal_subgraph, components, mst_edges, component_connectors,
                 subgraph_path>>

filterVars == <<topic_config, sentence_transformer, SKLEARN_AVAILABLE,
                current_node_count, relevance_scores, filter_path>>

dedupVars == <<concepts, deduplicated, rerun, dedup_calls>>

pipelineVars == <<entry, result>>

workflowVars == <<state, node, route, pool, fallback_results>>

progressVars == <<progress_updates, source_index>>

vars == <<builderVars, filterVars, dedupVars, pipelineVars, workflowVars, progressVars>>

-----------------------------------------------------------------------------
(* Generic helpers for sequences *)

Range(s) == {s[i] : i \in DOMAIN s}

InSeq(x, s) == \E i \in DOMAIN s : s[i] = x

\* All sequences over U of length at most n
SeqsUpTo(U, n) == UNION {[1..k -> U] : k \in 0..n}

\* The sequences of SeqsUpTo(U, n) that hold no element twice
DistinctSeqsUpTo(U, n) ==
    {s \in SeqsUpTo(U, n) : \A i, j \in DOMAIN s : s[i] = s[j] => i = j}

\* TRUE for every value. TLC evaluates an operator's argument when it is first
\* used; testing the accumulator at each step of a recursion keeps the pending
\* evaluations from piling up until the end.
Evaluated(x) == x = x

Max2(a, b) == IF a >= b THEN a ELSE b

Min2(a, b) == IF a <= b THEN a ELSE b

-----------------------------------------------------------------------------
(* Python str: lower(), `in`, strip(), split() *)

UpperChars ==
    <<"A", "B", "C", "D", "E", "F", "G", "H", "I", "J", "K", "L", "M", "N",
      "O", "P", "Q", "R", "S", "T", "U", "V", "W", "X", "Y", "Z">>

LowerChars ==
    <<"a", "b", "c", "d", "e", "f", "g", "h", "i", "j", "k", "l", "m", "n",
      "o", "p", "q", "r", "s", "t", "u", "v", "w", "x", "y", "z">>

LowerChar(c) ==
    IF \E i \in DOMAIN UpperChars : UpperChars[i] = c
    THEN LowerChars[CHOOSE i \in DOMAIN UpperChars : UpperChars[i] = c]
    ELSE c

UpperChar(c) ==
    IF \E i \in DOMAIN LowerChars : LowerChars[i] = c
    THEN UpperChars[CHOOSE i \in DOMAIN LowerChars : LowerChars[i] = c]
    ELSE c

\* str.lower()
Lower(t) == [i \in DOMAIN t |-> LowerChar(t[i])]

\* str.upper()
Upper(t) == [i \in DOMAIN t |-> UpperChar(t[i])]

\* str.endswith(suffix)
endswith(t, suffix) ==
    Len(t) >= Len(suffix) /\ SubSeq(t, Len(t) - Len(suffix) + 1, Len(t)) = suffix

\* t[:-k]
DropLast(t, k) == SubSeq(t, 1, Len(t) - k)

\* `sub in text` for two str values
Contains(sub, text) ==
    \E i \in 0..(Len(text) - Len(sub)) : SubSeq(text, i + 1, i + Len(sub)) = sub

IsSpace(c) == c \in {" ", "\t", "\n"}

\* str.strip()
RECURSIVE strip(_)
strip(t) ==
    IF t = <<>> THEN t
    ELSE IF IsSpace(Head(t)) THEN strip(Tail(t))
    ELSE IF IsSpace(t[Len(t)]) THEN strip(SubSeq(t, 1, Len(t) - 1))
    ELSE t

\* set(str.split()): the maximal runs of non-space characters from position i
\* on, `word` being the run under construction
split_none(t, i, word) == {}

RECURSIVE split(_, _, _)
split(t, i, word) ==
    IF i > Len(t) THEN (IF word = <<>> THEN {} ELSE {word})
    ELSE IF IsSpace(t[i])
         THEN (IF word = <<>> THEN {} ELSE {word}) \cup split(t, i + 1, <<>>)
         ELSE split(t, i + 1, Append(word, t[i]))

-----------------------------------------------------------------------------
(* networkx DiGraph: nodes in insertion order, successors in insertion     *)
(* order, one attribute record per node and per ordered pair               *)

EmptyGraph == [nodes |-> <<>>, data |-> <<>>, succ |-> <<>>, edata |-> <<>>]

\* DiGraph.add_node(n, **attrs)
add_node(G, n, attrs) ==
    IF InSeq(n, G.nodes)
    THEN [G EXCEPT !.data = (n :> attrs) @@ G.data]
    ELSE [G EXCEPT !.nodes = Append(G.nodes, n),
                   !.data = (n :> attrs) @@ G.data,
                   !.succ = (n :> <<>>) @@ G.succ]

\* DiGraph.add_edge(u, v, **attrs), both end points being nodes already
add_edge(G, u, v, ed) ==
    [G EXCEPT !.succ = (u :> (IF InSeq(v, G.succ[u]) THEN G.succ[u]
                               ELSE Append(G.succ[u], v))) @@ G.succ,
              !.edata = (<<u, v>> :> ed) @@ G.edata]

has_edge(G, u, v) == <<u, v>> \in DOMAIN G.edata

NodeSet(G) == Range(G.nodes)

\* G.edges(): for u in nodes, for v in succ[u]
RECURSIVE EdgeList(_, _)
EdgeList(G, i) ==
    IF i > Len(G.nodes) THEN <<>>
    ELSE [k \in DOMAIN G.succ[G.nodes[i]] |-> <<G.nodes[i], G.succ[G.nodes[i]][k]>>]
         \o EdgeList(G, i + 1)

-----------------------------------------------------------------------------
(* KnowledgeGraphBuilder._build_graph_structure *)

\* 'id' of an extracted node: "<type>_<md5(label)[:8]>", one per (type, label)
NodeId(type, label) == <<type, label>>

MkNode(type, label, frequency) ==
    [id |-> NodeId(type, label), label |-> label, type |-> type, frequency |-> frequency]

\* for node in all_nodes: self.graph.add_node(node['id'], label=..., ...)
RECURSIVE AddAllNodes(_, _, _)
AddAllNodes(G, nodes, i) ==
    IF Evaluated(G) /\ i > Len(nodes) THEN G
    ELSE AddAllNodes(
            add_node(G, nodes[i].id,
                     [label |-> nodes[i].label, type |-> nodes[i].type,
                      frequency |-> nodes[i].frequency]),
            nodes, i + 1)

\* node_labels = {node['id']: node['label'] for node in all_nodes}: the keys in
\* insertion order and the label each key ends up with
node_labels_keys(nodes) ==
    LET first(i) == \A j \in 1..(i - 1) : nodes[j].id # nodes[i].id
        RECURSIVE keys(_)
        keys(i) == IF i > Len(nodes) THEN <<>>
                   ELSE (IF first(i) THEN <<nodes[i].id>> ELSE <<>>) \o keys(i + 1)
    IN keys(1)

node_labels_value(nodes, id) ==
    LET last == CHOOSE i \in DOMAIN nodes :
                    nodes[i].id = id /\ \A j \in DOMAIN nodes : nodes[j].id = id => j <= i
    IN nodes[last].label

\* content = (source.get('content', '') + ' ' + source.get('title', '')).lower()
SourceText(source) == Lower(source.content \o <<" ">> \o source.title)

\* appearing_nodes: the ids whose lower-cased label is a substring of the text
appearing_nodes(nodes, source) ==
    SelectSeq(node_labels_keys(nodes),
              LAMBDA id : Contains(Lower(node_labels_value(nodes, id)), SourceText(source)))

\* cooccurrence: defaultdict(lambda: defaultdict(int))
EmptyCooccurrence == [keys |-> <<>>, inner |-> <<>>, count |-> <<>>]

\* cooccurrence[a][b] += 1
Increment(co, a, b) ==
    LET in0 == IF a \in DOMAIN co.inner THEN co.inner[a] ELSE <<>>
        c0 == IF <<a, b>> \in DOMAIN co.count THEN co.count[<<a, b>>] ELSE 0
    IN [keys |-> IF InSeq(a, co.keys) THEN co.keys ELSE Append(co.keys, a),
        inner |-> (a :> (IF InSeq(b, in0) THEN in0 ELSE Append(in0, b))) @@ co.inner,
        count |-> (<<a, b>> :> c0 + 1) @@ co.count]

\* The mutant of CountBothWays that leaves out cooccurrence[node2][node1] += 1
CountOneWay(co, node1, node2) == Increment(co, node1, node2)

\* cooccurrence[node1][node2] += 1; cooccurrence[node2][node1] += 1
CountBothWays(co, node1, node2) == Increment(Increment(co, node1, node2), node2, node1)

\* The mutant of PairStart in which a node is paired with itself
PairStart_inclusive(i) == i

\* for i, node1 in enumerate(appearing_nodes): for node2 in appearing_nodes[i+1:]
PairStart(i) == i + 1

\* The two nested loops over one source's appearing nodes
RECURSIVE CountPairs(_, _, _, _)
CountPairs(co, app, i, j) ==
    IF Evaluated(co) /\ i > Len(app) THEN co
    ELSE IF j > Len(app) THEN CountPairs(co, app, i + 1, PairStart(i + 1))
    ELSE CountPairs(CountBothWays(co, app[i], app[j]),
                    app, i, j + 1)

\* for source in sources: ...
RECURSIVE CountSources(_, _, _, _)
CountSources(co, nodes, srcs, s) ==
    IF Evaluated(co) /\ s > Len(srcs) THEN co
    ELSE CountSources(CountPairs(co, appearing_nodes(nodes, srcs[s]), 1, PairStart(1)),
                      nodes, srcs, s + 1)

\* The mutant of KeepsEdge in which a single shared source makes an edge
KeepsEdge_any(weight) == weight >= 1

\* if weight >= 2:  # Minimum co-occurrence threshold
KeepsEdge(weight) == weight >= 2

\* for node1, connections in cooccurrence.items(): for node2, weight in ...
RECURSIVE AddEdges(_, _, _, _)
AddEdges(G, co, i, j) ==
    IF Evaluated(G) /\ i > Len(co.keys) THEN G
    ELSE LET n1 == co.keys[i]
         IN IF j > Len(co.inner[n1]) THEN AddEdges(G, co, i + 1, 1)
            ELSE LET n2 == co.inner[n1][j]
                     w == co.count[<<n1, n2>>]
                 IN AddEdges(IF KeepsEdge(w)
                             THEN add_edge(G, n1, n2, [weight |-> w, connection_type |-> "unset"])
                             ELSE G,
                             co, i, j + 1)

AfterBuild_centrality(t) == "calculate_centrality_metrics"

\* Step 3 of build_graph_from_sources: `if topic.strip():` the filter comes
\* next, else the centrality metrics
AfterBuild(t) ==
    IF strip(t) # <<>> THEN "filter_nodes_by_topic_relevance"
    ELSE "calculate_centrality_metrics"

\* The graph self.graph holds after _build_graph_structure(concepts, entities, sources)
build_graph_structure(G, nodes, srcs) ==
    AddEdges(AddAllNodes(G, nodes, 1),
             CountSources(EmptyCooccurrence, nodes, srcs, 1), 1, 1)

_build_graph_structure ==
    /\ pc = "build_graph_structure"
    /\ graph' = build_graph_structure(graph, all_nodes, sources)
    /\ pc' = AfterBuild(topic)
    /\ UNCHANGED <<sources, topic, all_nodes, centrality_scores, minimal_subgraph,
                   components, mst_edges, component_connectors, subgraph_path>>
    /\ UNCHANGED filterVars
    /\ UNCHANGED dedupVars
    /\ UNCHANGED progressVars
    /\ UNCHANGED workflowVars
    /\ UNCHANGED pipelineVars

-----------------------------------------------------------------------------
(* networkx Graph (undirected): nodes in insertion order, neighbours in    *)
(* insertion order, one attribute record per node and per unordered pair   *)

EmptyUGraph == [nodes |-> <<>>, data |-> <<>>, adj |-> <<>>, edata |-> <<>>]

AppendNew(s, x) == IF InSeq(x, s) THEN s ELSE Append(s, x)

\* Graph.add_node(n, **attrs)
u_add_node(G, n, attrs) ==
    IF InSeq(n, G.nodes)
    THEN [G EXCEPT !.data = (n :> attrs) @@ G.data]
    ELSE [G EXCEPT !.nodes = Append(G.nodes, n),
                   !.data = (n :> attrs) @@ G.data,
                   !.adj = (n :> <<>>) @@ G.adj]

\* Graph.add_edge(u, v, **attrs), both end points being nodes already
u_add_edge(G, u, v, ed) ==
    LET a1 == (u :> AppendNew(G.adj[u], v)) @@ G.adj
        a2 == (v :> AppendNew(a1[v], u)) @@ a1
    IN [G EXCEPT !.adj = a2, !.edata = ({u, v} :> ed) @@ G.edata]

\* G.edges() of a Graph, or of the subgraph view whose nodes iterate in the
\* order ord: for n in ord, for nbr in adj[n], unless nbr was visited before n
UEdgeList(G, ord) ==
    LET RECURSIVE from(_)
        from(i) ==
            IF i > Len(ord) THEN <<>>
            ELSE LET nb == SelectSeq(G.adj[ord[i]],
                              LAMBDA v : InSeq(v, ord) /\ ~InSeq(v, SubSeq(ord, 1, i - 1)))
                 IN [k \in DOMAIN nb |-> <<ord[i], nb[k]>>] \o from(i + 1)
    IN from(1)

UEdgeSet(G) == DOMAIN G.edata

\* The nodes reachable from the set S (nx's _plain_bfs)
RECURSIVE Reach(_, _)
Reach(G, S) ==
    LET next == S \cup {n \in NodeSet(G) : \E m \in S : InSeq(n, G.adj[m])}
    IN IF next = S THEN S ELSE Reach(G, next)

\* list(nx.connected_components(G)): one set per component, in the order of
\* each component's first node
connected_components(G) ==
    LET RECURSIVE comps(_, _)
        comps(i, seen) ==
            IF i > Len(G.nodes) THEN <<>>
            ELSE IF G.nodes[i] \in seen THEN comps(i + 1, seen)
            ELSE LET c == Reach(G, {G.nodes[i]})
                 IN <<c>> \o comps(i + 1, seen \cup c)
    IN comps(1, {})

\* DiGraph.to_undirected(): the nodes in order, then every directed edge in
\* G.edges() order; the two directions of a pair end up as one edge
to_undirected(D) ==
    LET RECURSIVE nodes(_, _)
        nodes(G, i) == IF Evaluated(G) /\ i > Len(D.nodes) THEN G
                       ELSE nodes(u_add_node(G, D.nodes[i], D.data[D.nodes[i]]), i + 1)
        el == EdgeList(D, 1)
        RECURSIVE edges(_, _)
        edges(G, k) == IF Evaluated(G) /\ k > Len(el) THEN G
                       ELSE edges(u_add_edge(G, el[k][1], el[k][2],
                                             [weight |-> D.edata[el[k]].weight]), k + 1)
    IN edges(nodes(EmptyUGraph, 1), 1)

-----------------------------------------------------------------------------
(* KnowledgeGraphBuilder._calculate_centrality_metrics                     *)
(* The numbers networkx computes are not modelled; what is kept per        *)
(* measure is which computation filled it and which nodes it covers.       *)

Measures == {"pagerank", "eigenvector", "betweenness", "closeness"}

\* self.centrality_scores.clear()
NoScores == <<>>

Scored(mode, G) == [mode |-> mode, over |-> NodeSet(G)]

\* self.centrality_scores[measure] = scores
Assign(dict, measure, scores) == (measure :> scores) @@ dict

\* The try block, cut short after `done` of its four assignments; eigenvector
\* centrality is networkx's ("nx") or, when the power iteration does not
\* converge, degree centrality
TryBlock(dict, G, eig, done) ==
    LET d1 == IF done >= 1 THEN Assign(dict, "pagerank", Scored("nx", G)) ELSE dict
        d2 == IF done >= 2 THEN Assign(d1, "eigenvector", Scored(eig, G)) ELSE d1
        d3 == IF done >= 3 THEN Assign(d2, "betweenness", Scored("nx", G)) ELSE d2
    IN IF done >= 4 THEN Assign(d3, "closeness", Scored("nx", G)) ELSE d3

\* The mutant of ExceptBlock that fills only the measures the try block left out
ExceptBlock_missing(dict, G) == dict @@ [m \in Measures |-> Scored("degree", G)]

\* except Exception: degree centrality assigned to all four measures
ExceptBlock(dict, G) ==
    Assign(Assign(Assign(Assign(dict, "pagerank", Scored("degree", G)),
                         "eigenvector", Scored("degree", G)),
                  "betweenness", Scored("degree", G)),
           "closeness", Scored("degree", G))

\* Every value self.centrality_scores may have when the method returns on a
\* graph with nodes: the try block ran through, or it raised after 0..3
\* assignments and the except block ran
CentralityOutcomes(dict, G) ==
    {TryBlock(dict, G, eig, 4) : eig \in {"nx", "degree"}}
    \cup {ExceptBlock(TryBlock(dict, G, eig, done), G) :
             eig \in {"nx", "degree"}, done \in 0..3}

_calculate_centrality_metrics ==
    /\ pc = "calculate_centrality_metrics"
    /\ IF Len(graph.nodes) = 0
       THEN UNCHANGED centrality_scores
       ELSE centrality_scores' \in CentralityOutcomes(centrality_scores, graph)
    /\ pc' = "find_minimal_subgraph"
    /\ UNCHANGED <<sources, topic, all_nodes, graph, minimal_subgraph,
                   components, mst_edges, component_connectors, subgraph_path>>
    /\ UNCHANGED filterVars
    /\ UNCHANGED dedupVars
    /\ UNCHANGED progressVars
    /\ UNCHANGED workflowVars
    /\ UNCHANGED pipelineVars

-----------------------------------------------------------------------------
(* KnowledgeGraphBuilder._find_minimal_subgraph *)

\* reciprocal_weight = 1.0 / (original_weight + 1e-6), kept as the number of
\* millionths in its denominator: the cost is 1e6 / ReciprocalWeight(w)
ReciprocalWeight(original_weight) == original_weight * 1000000 + 1

\* a < b for two costs 1e6/a_den and 1e6/b_den
CostLess(a_den, b_den) == a_den > b_den

\* mst_graph: the undirected graph with reciprocal weights
MstGraph(undirected_graph) ==
    LET RECURSIVE nodes(_, _)
        nodes(G, i) ==
            IF Evaluated(G) /\ i > Len(undirected_graph.nodes) THEN G
            ELSE nodes(u_add_node(G, undirected_graph.nodes[i],
                                  undirected_graph.data[undirected_graph.nodes[i]]), i + 1)
        el == UEdgeList(undirected_graph, undirected_graph.nodes)
        RECURSIVE edges(_, _)
        edges(G, k) ==
            IF Evaluated(G) /\ k > Len(el) THEN G
            ELSE LET w == undirected_graph.edata[{el[k][1], el[k][2]}].weight
                 IN edges(u_add_edge(G, el[k][1], el[k][2],
                                     [weight |-> ReciprocalWeight(w),
                                      original_weight |-> w,
                                      connection_type |-> "unset"]), k + 1)
    IN edges(nodes(EmptyUGraph, 1), 1)

\* sorted(edges, key=weight): a stable insertion of e into a sorted list
RECURSIVE InsertByCost(_, _, _)
InsertByCost(G, sorted, e) ==
    IF sorted = <<>> THEN <<e>>
    ELSE IF CostLess(G.edata[{e[1], e[2]}].weight,
                     G.edata[{Head(sorted)[1], Head(sorted)[2]}].weight)
         THEN <<e>> \o sorted
         ELSE <<Head(sorted)>> \o InsertByCost(G, Tail(sorted), e)

RECURSIVE SortByCost(_, _)
SortByCost(G, edges) ==
    IF edges = <<>> THEN <<>>
    ELSE InsertByCost(G, SortByCost(G, SubSeq(edges, 1, Len(edges) - 1)),
                      edges[Len(edges)])

\* The mutant of Joins that also takes an edge inside one tree
Joins_always(part, u, v) == TRUE

\* Kruskal's test: u and v lie in different trees of the forest built so far
Joins(part, u, v) == part[u] # part[v]

\* kruskal_mst_edges: the edges, in order of cost, that join two trees
RECURSIVE KruskalEdges(_, _, _)
KruskalEdges(part, sorted, k) ==
    IF Evaluated(part) /\ k > Len(sorted) THEN <<>>
    ELSE LET u == sorted[k][1]
             v == sorted[k][2]
         IN IF Joins(part, u, v)
            THEN LET merged == part[u] \cup part[v]
                 IN <<sorted[k]>> \o
                    KruskalEdges([n \in DOMAIN part |->
                                     IF n \in merged THEN merged ELSE part[n]],
                                 sorted, k + 1)
            ELSE KruskalEdges(part, sorted, k + 1)

\* nx.minimum_spanning_tree(G, weight='weight', algorithm='kruskal') for G the
\* graph itself or its subgraph view iterating in the order ord
minimum_spanning_tree(G, ord) ==
    LET tree == KruskalEdges([n \in Range(ord) |-> {n}],
                             SortByCost(G, UEdgeList(G, ord)), 1)
        RECURSIVE nodes(_, _)
        nodes(T, i) == IF Evaluated(T) /\ i > Len(ord) THEN T
                       ELSE nodes(u_add_node(T, ord[i], G.data[ord[i]]), i + 1)
        RECURSIVE edges(_, _)
        edges(T, k) == IF Evaluated(T) /\ k > Len(tree) THEN T
                       ELSE edges(u_add_edge(T, tree[k][1], tree[k][2],
                                             G.edata[{tree[k][1], tree[k][2]}]), k + 1)
    IN edges(nodes(EmptyUGraph, 1), 1)

\* All orders in which a finite set can iterate
Orders(S) ==
    {s \in [1..Cardinality(S) -> S] : \A i, j \in DOMAIN s : s[i] = s[j] => i = j}

\* The node order of mst_graph.subgraph(component): networkx walks the node set
\* itself (a Python set of str, whose order follows the process's string hash)
\* when it is less than half the graph, and the graph's own order otherwise
ViewOrders(G, component) ==
    IF 2 * Cardinality(component) < Len(G.nodes)
    THEN Orders(component)
    ELSE {SelectSeq(G.nodes, LAMBDA n : n \in component)}

\* One view order per component
RECURSIVE OrderChoices(_, _, _)
OrderChoices(G, comps, i) ==
    IF i > Len(comps) THEN {<<>>}
    ELSE {<<h>> \o t : h \in ViewOrders(G, comps[i]), t \in OrderChoices(G, comps, i + 1)}

\* component_msts: the spanning tree of each component; a component of one
\* node becomes a graph holding that node alone
ComponentMsts(G, comps, orders) ==
    [i \in DOMAIN comps |->
        IF Cardinality(comps[i]) > 1
        THEN minimum_spanning_tree(G, orders[i])
        ELSE LET single_node == CHOOSE n \in comps[i] : TRUE
             IN u_add_node(EmptyUGraph, single_node, G.data[single_node])]

\* nx.union(G, H) of two graphs without a common node
union(G, H) ==
    [nodes |-> G.nodes \o H.nodes, data |-> G.data @@ H.data,
     adj |-> G.adj @@ H.adj, edata |-> G.edata @@ H.edata]

RECURSIVE UnionAll(_, _, _)
UnionAll(R, msts, i) ==
    IF Evaluated(R) /\ i > Len(msts) THEN R ELSE UnionAll(union(R, msts[i]), msts, i + 1)

\* nx.degree_centrality(T)[n] as the fraction num/den: 1 for a single node,
\* degree/(n-1) otherwise
degree_centrality(T, n) ==
    IF Len(T.nodes) <= 1 THEN [num |-> 1, den |-> 1]
    ELSE [num |-> Len(T.adj[n]), den |-> Len(T.nodes) - 1]

FracLess(a, b) == a.num * b.den < b.num * a.den

\* max(centrality.items(), key=lambda x: x[1])[0]: the first node, in the
\* tree's node order, that no node beats
BestNode(T) ==
    LET i == CHOOSE i \in DOMAIN T.nodes :
                /\ \A j \in DOMAIN T.nodes :
                      ~FracLess(degree_centrality(T, T.nodes[i]),
                                degree_centrality(T, T.nodes[j]))
                /\ \A j \in 1..(i - 1) :
                      FracLess(degree_centrality(T, T.nodes[j]),
                               degree_centrality(T, T.nodes[i]))
    IN T.nodes[i]

\* component_connectors before the sort: (best_node, centrality, i) per component
Connectors(msts) ==
    [i \in DOMAIN msts |->
        [node |-> BestNode(msts[i]),
         centrality |-> degree_centrality(msts[i], BestNode(msts[i])),
         comp |-> i]]

\* component_connectors.sort(key=lambda x: x[1], reverse=True): stable, the
\* highest centrality first
RECURSIVE InsertConnector(_, _)
InsertConnector(sorted, c) ==
    IF sorted = <<>> THEN <<c>>
    ELSE IF FracLess(Head(sorted).centrality, c.centrality)
         THEN <<c>> \o sorted
         ELSE <<Head(sorted)>> \o InsertConnector(Tail(sorted), c)

RECURSIVE SortConnectors(_)
SortConnectors(cs) ==
    IF cs = <<>> THEN <<>>
    ELSE InsertConnector(SortConnectors(SubSeq(cs, 1, Len(cs) - 1)), cs[Len(cs)])

\* The mutant of StarTargets that leaves the last component unconnected
StarTargets_short(connectors) == SubSeq(connectors, 2, Len(connectors) - 1)

\* for connector_node, centrality, comp_idx in component_connectors[1:]
StarTargets(connectors) == SubSeq(connectors, 2, Len(connectors))

\* connection_weight = 0.1 as a cost 1e6 / 10000000; original_weight = 1.0 / 0.1
InterComponentEdge ==
    [weight |-> 10000000, original_weight |-> 10, connection_type |-> "inter_component"]

\* mst_edges.add_edge(main_connector, connector_node, ...) for every other connector
RECURSIVE AddStar(_, _, _, _)
AddStar(T, main_connector, targets, k) ==
    IF Evaluated(T) /\ k > Len(targets) THEN T
    ELSE AddStar(u_add_edge(T, main_connector, targets[k].node, InterComponentEdge),
                 main_connector, targets, k + 1)

\* The hybrid approach for several components: the trees, their union, the star
HybridMst(msts, connectors) ==
    LET combined == UnionAll(EmptyUGraph, msts, 1)
    IN IF Len(connectors) > 1
       THEN AddStar(combined, connectors[1].node, StarTargets(connectors), 1)
       ELSE combined

\* data.get('connection_type', 'intra_component')
ConnectionType(ed) ==
    IF ed.connection_type = "unset" THEN "intra_component" ELSE ed.connection_type

\* The mutant of RestoredWeight that keeps the spanning tree's reciprocal cost
RestoredWeight_cost(ed) == ed.weight

\* original_weight = data.get('original_weight', 1.0)
RestoredWeight(ed) == ed.original_weight

\* The mutant of Directions that copies every edge as the tree lists it
Directions_as_listed(full, u, v) == <<<<u, v>>>>

\* The edges add_edge is called with for the tree edge (u, v): (u, v) if the
\* full graph has it, else (v, u) if the full graph has that, else both
Directions(full, u, v) ==
    IF has_edge(full, u, v) THEN <<<<u, v>>>>
    ELSE IF has_edge(full, v, u) THEN <<<<v, u>>>>
    ELSE <<<<u, v>>, <<v, u>>>>

\* The mutant of TreeNodes that lists only the nodes some tree edge touches
TreeNodes_of_edges(tree) ==
    SelectSeq(tree.nodes, LAMBDA n : \E e \in UEdgeSet(tree) : n \in e)

\* for node in mst_edges.nodes(): every node of the tree, with or without edges
TreeNodes(tree) == tree.nodes

\* Step 4: the spanning tree as a DiGraph, each edge in the direction the full
\* graph has it, and in both directions when the full graph has neither
ToDirected(full, mst_graph, tree) ==
    LET tn == TreeNodes(tree)
        RECURSIVE nodes(_, _)
        nodes(D, i) == IF Evaluated(D) /\ i > Len(tn) THEN D
                       ELSE nodes(add_node(D, tn[i], mst_graph.data[tn[i]]),
                                  i + 1)
        el == UEdgeList(tree, tree.nodes)
        RECURSIVE edges(_, _)
        edges(D, k) ==
            IF Evaluated(D) /\ k > Len(el) THEN D
            ELSE LET u == el[k][1]
                     v == el[k][2]
                     ed == [weight |-> RestoredWeight(tree.edata[{u, v}]),
                            connection_type |-> ConnectionType(tree.edata[{u, v}])]
                     ds == Directions(full, u, v)
                     first == add_edge(D, ds[1][1], ds[1][2], ed)
                 IN edges(IF Len(ds) = 1 THEN first
                          ELSE add_edge(first, ds[2][1], ds[2][2], ed),
                          k + 1)
    IN edges(nodes(EmptyGraph, 1), 1)

\* self.graph.subgraph(selected_nodes).copy()
InducedSubgraph(G, selected) ==
    [nodes |-> SelectSeq(G.nodes, LAMBDA n : n \in selected),
     data |-> [n \in selected |-> G.data[n]],
     succ |-> [n \in selected |-> SelectSeq(G.succ[n], LAMBDA v : v \in selected)],
     edata |-> [e \in {x \in DOMAIN G.edata : x[1] \in selected /\ x[2] \in selected}
                   |-> G.edata[e]]]

\* target_size = min(50, max(10, int(total_nodes * 0.3)))
TargetSize(total_nodes) == Min2(50, Max2(10, (total_nodes * 3) \div 10))

\* The first target_size nodes of sorted(combined_scores.items(), reverse=True).
\* With every measure filled by degree centrality the combined score orders the
\* nodes by degree, ties in graph order; scores computed by networkx are not
\* modelled, so any target_size nodes may come first.
TopSelections(G, scores, target_size) ==
    LET n == Len(G.nodes)
        size == Min2(n, target_size)
        deg(x) == Cardinality({y \in NodeSet(G) : has_edge(G, x, y) \/ has_edge(G, y, x)})
        pos(x) == CHOOSE i \in DOMAIN G.nodes : G.nodes[i] = x
        before(x, y) == deg(x) > deg(y) \/ (deg(x) = deg(y) /\ pos(x) < pos(y))
    IN IF \A m \in Measures : scores[m].mode = "degree"
       THEN {{x \in NodeSet(G) :
                Cardinality({y \in NodeSet(G) : before(y, x)}) < size}}
       ELSE {S \in SUBSET NodeSet(G) : Cardinality(S) = size}

None == [is_none |-> TRUE, G |-> EmptyGraph]

Some(G) == [is_none |-> FALSE, G |-> G]

\* if not self.centrality_scores or self.graph.number_of_nodes() == 0: return
SkipsMinimalSubgraph == centrality_scores = NoScores \/ Len(graph.nodes) = 0

_find_minimal_subgraph ==
    /\ pc = "find_minimal_subgraph"
    /\ LET mst_graph == MstGraph(to_undirected(graph))
           comps == connected_components(mst_graph)
       IN \/ /\ SkipsMinimalSubgraph
             /\ subgraph_path' = "skipped"
             /\ pc' = "generate_node_embeddings"
             /\ UNCHANGED <<minimal_subgraph, components, mst_edges, component_connectors>>
          \* an exception in steps 1-3 is not caught here: it ends the build
          \/ /\ ~SkipsMinimalSubgraph
             /\ subgraph_path' = "raised"
             /\ pc' = "failed"
             /\ components' = comps
             /\ UNCHANGED <<minimal_subgraph, mst_edges, component_connectors>>
          \/ /\ ~SkipsMinimalSubgraph
             /\ \E orders \in OrderChoices(mst_graph, comps, 1) :
                   LET msts == ComponentMsts(mst_graph, comps, orders)
                       connectors == IF Len(comps) = 1 THEN <<>>
                                     ELSE SortConnectors(Connectors(msts))
                       tree == IF Len(comps) = 1
                               THEN minimum_spanning_tree(mst_graph, mst_graph.nodes)
                               ELSE HybridMst(msts, connectors)
                   IN /\ components' = comps
                      /\ mst_edges' = tree
                      /\ component_connectors' = connectors
                      /\ \* try: steps 4 and 5
                         \/ /\ minimal_subgraph' = Some(ToDirected(graph, mst_graph, tree))
                            /\ subgraph_path' = "mst"
                         \* except Exception: the top nodes by combined score
                         \/ \E selected \in TopSelections(graph, centrality_scores,
                                                          TargetSize(Len(graph.nodes))) :
                               /\ minimal_subgraph' = Some(InducedSubgraph(graph, selected))
                               /\ subgraph_path' = "fallback"
             /\ pc' = "generate_node_embeddings"
    /\ UNCHANGED <<sources, topic, all_nodes, graph, centrality_scores>>
    /\ UNCHANGED filterVars
    /\ UNCHANGED dedupVars
    /\ UNCHANGED progressVars
    /\ UNCHANGED workflowVars
    /\ UNCHANGED pipelineVars

-----------------------------------------------------------------------------
(* KnowledgeGraphBuilder._filter_nodes_by_topic_relevance and the two      *)
(* scoring methods it relies on.  A score is a fraction num/den.           *)

Frac(n, d) == [num |-> n, den |-> d]

\* TopicRelevanceConfig.__init__ with its default arguments
TopicRelevanceConfig ==
    [relevance_threshold |-> Frac(3, 10),
     enable_semantic_filtering |-> TRUE,
     max_nodes_before_filtering |-> 1000]

\* A dict of relevance scores, with the method that computed it
Scoring(by, scores) == [by |-> by, scores |-> scores]

\* The filter's variables while the filter has not been called
FilterIdle ==
    /\ topic_config = TopicRelevanceConfig
    /\ sentence_transformer = FALSE
    /\ SKLEARN_AVAILABLE = TRUE
    /\ current_node_count = 0
    /\ relevance_scores = Scoring("none", NoScores)
    /\ filter_path = "none"

\* DiGraph.remove_nodes_from(ns): the nodes go, and every edge at them
remove_nodes_from(G, ns) ==
    [nodes |-> SelectSeq(G.nodes, LAMBDA n : n \notin ns),
     data  |-> [n \in NodeSet(G) \ ns |-> G.data[n]],
     succ  |-> [n \in NodeSet(G) \ ns |->
                    SelectSeq(G.succ[n], LAMBDA v : v \notin ns)],
     edata |-> [e \in {d \in DOMAIN G.edata : d[1] \notin ns /\ d[2] \notin ns}
                    |-> G.edata[e]]]

\* _calculate_context_relevance_scores: 0.6 * word overlap + 0.3 * min(frequency/10, 1)
\* + 0.1 for a concept, capped at 1.0; here over the common denominator
\* 100 * max(len(topic_words), 1)
_calculate_context_relevance_scores(G, t) ==
    LET topic_words == split(Lower(t), 1, <<>>)
        words_den == Max2(Cardinality(topic_words), 1)
    IN [n \in NodeSet(G) |->
          LET node_words == split(Lower(G.data[n].label), 1, <<>>)
              type_bonus == IF G.data[n].type = "concept" THEN 10 ELSE 0
              final_score ==
                  60 * Cardinality(topic_words \cap node_words)
                  + (3 * Min2(G.data[n].frequency, 10) + type_bonus) * words_den
          IN IF final_score > 100 * words_den THEN Frac(1, 1)
             ELSE Frac(final_score, 100 * words_den)]

\* What cosine_similarity may give a node: below, at and above the default threshold
SimilarityLevels == {Frac(1, 10), Frac(3, 10), Frac(9, 10)}

MaxPattern == 3

\* The similarity scores the embedding model may produce: the levels, laid
\* over the nodes in a repeating pattern
SemanticScores(G) ==
    {[n \in NodeSet(G) |->
         LET i == CHOOSE k \in DOMAIN G.nodes : G.nodes[k] = n
         IN pattern[((i - 1) % Len(pattern)) + 1]]
     : pattern \in SeqsUpTo(SimilarityLevels, MaxPattern) \ {<<>>}}

\* _calculate_topic_relevance_scores: every result the call may have
_calculate_topic_relevance_scores(G, t) ==
    IF ~sentence_transformer \/ strip(t) = <<>>
    THEN {Scoring("none", NoScores)}
    ELSE IF ~SKLEARN_AVAILABLE
    THEN {Scoring("context", _calculate_context_relevance_scores(G, t))}
    ELSE \* try: encode and compare; `if not node_texts: return {}`
         (IF G.nodes = <<>> THEN {Scoring("none", NoScores)}
          ELSE {Scoring("semantic", sc) : sc \in SemanticScores(G)})
         \* except Exception: the context scores
         \cup {Scoring("context", _calculate_context_relevance_scores(G, t))}

InsertByScore_unsorted(sorted, n, scores) == Append(sorted, n)

\* sorted(relevance_scores.items(), key=lambda x: x[1], reverse=True): stable,
\* so a node goes in front of the first node with a strictly lower score
InsertByScore(sorted, n, scores) ==
    LET lower == {k \in DOMAIN sorted : FracLess(scores[sorted[k]], scores[n])}
        at == IF lower = {} THEN Len(sorted) + 1
              ELSE CHOOSE k \in lower : \A j \in lower : k <= j
    IN SubSeq(sorted, 1, at - 1) \o <<n>> \o SubSeq(sorted, at, Len(sorted))

RECURSIVE SortedByScore(_, _, _, _)
SortedByScore(sorted, order, scores, i) ==
    IF Evaluated(sorted) /\ i > Len(order) THEN sorted
    ELSE SortedByScore(InsertByScore(sorted, order[i], scores), order, scores, i + 1)

MinNodesToKeep_none(n) == 0

\* min_nodes_to_keep = max(10, int(current_node_count * 0.1))
MinNodesToKeep(n) == Max2(10, n \div 10)

\* self.graph.nodes[node_id]['topic_relevance'] = relevance_scores[node_id]
Annotate(G, scores) ==
    [G EXCEPT !.data = [n \in DOMAIN G.data |->
        IF n \in DOMAIN scores
        THEN ("topic_relevance" :> scores[n]) @@ G.data[n]
        ELSE G.data[n]]]

Filtered(G, by, scores, path) ==
    [graph |-> G, by |-> by, relevance_scores |-> scores, path |-> path]

\* The removal rule, from `nodes_to_remove = []` to the end of the try block
RemoveIrrelevant(G, by, scores) ==
    LET below(n) == FracLess(scores[n], topic_config.relevance_threshold)
        keep == SelectSeq(G.nodes, LAMBDA n : ~below(n))
        min_nodes_to_keep == MinNodesToKeep(Len(G.nodes))
        sorted_nodes == SortedByScore(<<>>, G.nodes, scores, 1)
        top == Len(keep) < min_nodes_to_keep
        nodes_to_remove ==
            IF top
            THEN (IF min_nodes_to_keep >= Len(sorted_nodes) THEN <<>>
                  ELSE SubSeq(sorted_nodes, min_nodes_to_keep + 1, Len(sorted_nodes)))
            ELSE SelectSeq(G.nodes, below)
    IN IF nodes_to_remove # <<>>
       THEN Filtered(Annotate(remove_nodes_from(G, Range(nodes_to_remove)), scores),
                     by, scores, IF top THEN "top" ELSE "threshold")
       ELSE Filtered(G, by, scores, "all_kept")

\* Every result _filter_nodes_by_topic_relevance(topic, sources) may have on G
filter_nodes_by_topic_relevance(G, t) ==
    IF strip(t) = <<>> THEN {Filtered(G, "none", NoScores, "no_topic")}
    ELSE IF Len(G.nodes) < topic_config.max_nodes_before_filtering
    THEN {Filtered(G, "none", NoScores, "below_max_nodes")}
    ELSE IF ~topic_config.enable_semantic_filtering
    THEN {Filtered(G, "none", NoScores, "disabled")}
    ELSE {IF s.scores = NoScores THEN Filtered(G, s.by, NoScores, "no_scores")
          ELSE RemoveIrrelevant(G, s.by, s.scores)
          : s \in _calculate_topic_relevance_scores(G, t)}

_filter_nodes_by_topic_relevance ==
    /\ pc = "filter_nodes_by_topic_relevance"
    /\ current_node_count' = Len(graph.nodes)
    /\ \E outcome \in filter_nodes_by_topic_relevance(graph, topic) :
          /\ graph' = outcome.graph
          /\ relevance_scores' = Scoring(outcome.by, outcome.relevance_scores)
          /\ filter_path' = outcome.path
    /\ pc' = "calculate_centrality_metrics"
    /\ UNCHANGED <<sources, topic, all_nodes, centrality_scores, minimal_subgraph,
                   components, mst_edges, component_connectors, subgraph_path,
                   topic_config, sentence_transformer, SKLEARN_AVAILABLE>>
    /\ UNCHANGED dedupVars
    /\ UNCHANGED progressVars
    /\ UNCHANGED workflowVars
    /\ UNCHANGED pipelineVars

-----------------------------------------------------------------------------
(* deduplicate_learning_concepts and _are_similar_concepts.  A concept is  *)
(* a record; its source_references, which the function only ever turns     *)
(* into a set, are a set                                                   *)

DedupIdle ==
    /\ concepts = <<>>
    /\ deduplicated = <<>>
    /\ rerun = <<>>
    /\ dedup_calls = 0

\* The `variations` list of _are_similar_concepts
variations ==
    <<{<<"m", "e", "t", "h", "o", "d">>,
       <<"m", "e", "t", "h", "o", "d", "s">>,
       <<"m", "e", "t", "h", "o", "d", "o", "l", "o", "g", "y">>},
      {<<"t", "e", "c", "h", "n", "i", "q", "u", "e">>,
       <<"t", "e", "c", "h", "n", "i", "q", "u", "e", "s">>},
      {<<"a", "l", "g", "o", "r", "i", "t", "h", "m">>,
       <<"a", "l", "g", "o", "r", "i", "t", "h", "m", "s">>},
      {<<"a", "p", "p", "r", "o", "a", "c", "h">>,
       <<"a", "p", "p", "r", "o", "a", "c", "h", "e", "s">>},
      {<<"c", "o", "n", "c", "e", "p", "t">>,
       <<"c", "o", "n", "c", "e", "p", "t", "s">>},
      {<<"p", "r", "i", "n", "c", "i", "p", "l", "e">>,
       <<"p", "r", "i", "n", "c", "i", "p", "l", "e", "s">>},
      {<<"t", "h", "e", "o", "r", "y">>,
       <<"t", "h", "e", "o", "r", "i", "e", "s">>},
      {<<"m", "o", "d", "e", "l">>,
       <<"m", "o", "d", "e", "l", "s">>,
       <<"m", "o", "d", "e", "l", "i", "n", "g">>},
      {<<"a", "n", "a", "l", "y", "s", "i", "s">>,
       <<"a", "n", "a", "l", "y", "s", "e", "s">>},
      {<<"n", "e", "t", "w", "o", "r", "k">>,
       <<"n", "e", "t", "w", "o", "r", "k", "s">>,
       <<"n", "e", "t", "w", "o", "r", "k", "i", "n", "g">>},
      {<<"l", "e", "a", "r", "n", "i", "n", "g">>,
       <<"m", "a", "c", "h", "i", "n", "e", " ", "l", "e", "a", "r", "n", "i", "n", "g">>},
      {<<"d", "a", "t", "a">>,
       <<"d", "a", "t", "a", "s", "e", "t">>,
       <<"d", "a", "t", "a", "s", "e", "t", "s">>}>>

\* `len(intersection) / len(union) > 0.75` for two sets of words
SharesMostWords(words1, words2) ==
    4 * Cardinality(words1 \cap words2) > 3 * Cardinality(words1 \cup words2)

_are_similar_concepts(name1, name2) ==
    \/ name1 = name2
    \/ endswith(name1, <<"s">>) /\ DropLast(name1, 1) = name2
    \/ endswith(name2, <<"s">>) /\ DropLast(name2, 1) = name1
    \/ endswith(name1, <<"i", "n", "g">>) /\ DropLast(name1, 3) = name2
    \/ endswith(name2, <<"i", "n", "g">>) /\ DropLast(name2, 3) = name1
    \/ \E g \in DOMAIN variations : name1 \in variations[g] /\ name2 \in variations[g]
    \/ LET words1 == split(name1, 1, <<>>)
           words2 == split(name2, 1, <<>>)
       IN /\ Cardinality(words1) >= 2
          /\ Cardinality(words2) >= 2
          /\ SharesMostWords(words1, words2)
    \/ Len(name1) <= 5 /\ Contains(Upper(name1), Upper(name2))
    \/ Len(name2) <= 5 /\ Contains(Upper(name2), Upper(name1))

\* sorted(concepts, key=importance_score, reverse=True): stable, so a concept
\* goes in front of the first concept of strictly lower importance
InsertByImportance(sorted, concept) ==
    LET lower == {k \in DOMAIN sorted :
                     sorted[k].importance_score < concept.importance_score}
        at == IF lower = {} THEN Len(sorted) + 1
              ELSE CHOOSE k \in lower : \A j \in lower : k <= j
    IN SubSeq(sorted, 1, at - 1) \o <<concept>> \o SubSeq(sorted, at, Len(sorted))

RECURSIVE SortedByImportance(_, _, _)
SortedByImportance(sorted, cs, i) ==
    IF Evaluated(sorted) /\ i > Len(cs) THEN sorted
    ELSE SortedByImportance(InsertByImportance(sorted, cs[i]), cs, i + 1)

\* list(a_set)[:k]: a set of strings is listed in the order of the strings'
\* hashes, which changes from one interpreter run to the next, so any k of
\* the members may be the ones that stay
FirstOfSet(S, k) ==
    IF Cardinality(S) <= k THEN {S}
    ELSE {T \in SUBSET S : Cardinality(T) = k}

\* a_list[:k]
Take(s, k) == SubSeq(s, 1, Min2(k, Len(s)))

\* for resource in new_resources: if resource not in existing_resources: append
RECURSIVE MergeResources(_, _, _)
MergeResources(existing_resources, new_resources, i) ==
    IF Evaluated(existing_resources) /\ i > Len(new_resources) THEN existing_resources
    ELSE MergeResources(AppendNew(existing_resources, new_resources[i]),
                        new_resources, i + 1)

\* The exact-duplicate branch: every record `existing` may become
MergeExact(existing, concept) ==
    {[existing EXCEPT
        !.source_references = combined_refs,
        !.resources = Take(MergeResources(existing.resources, concept.resources, 1), 3),
        !.time_estimate = Max2(existing.time_estimate, concept.time_estimate)]
     : combined_refs \in
         FirstOfSet(existing.source_references \cup concept.source_references, 5)}

\* The fuzzy-duplicate branch: every record `existing` may become
MergeFuzzy(existing, concept, concept_name) ==
    {[existing EXCEPT
        !.source_references = combined_refs,
        !.name = IF Len(concept_name) > Len(existing.name) THEN concept_name ELSE @,
        !.description = IF Len(concept.description) > Len(existing.description)
                        THEN concept.description ELSE @,
        !.time_estimate = Max2(existing.time_estimate, concept.time_estimate)]
     : combined_refs \in
         FirstOfSet(existing.source_references \cup concept.source_references, 5)}

\* The first index of a non-empty set of indices: where `break` leaves the loop
FirstHit(hits) == CHOOSE i \in hits : \A j \in hits : i <= j

\* One pass of `for concept in sorted_concepts`, from the locals
\* st = [deduplicated, processed_names]: every value the locals may have after it
DedupStep(st, concept) ==
    LET concept_name == strip(concept.name)
        normalized_name == strip(Lower(concept_name))
        exact == {i \in DOMAIN st.deduplicated :
                     Lower(st.deduplicated[i].name) = normalized_name}
        fuzzy == {i \in DOMAIN st.deduplicated :
                     _are_similar_concepts(normalized_name,
                                           strip(Lower(st.deduplicated[i].name)))}
    IN IF concept_name = <<>> THEN {st}
       ELSE IF normalized_name \in st.processed_names
       THEN (IF exact = {} THEN {st}
             ELSE {[st EXCEPT !.deduplicated[FirstHit(exact)] = merged]
                   : merged \in MergeExact(st.deduplicated[FirstHit(exact)], concept)})
       ELSE IF fuzzy # {}
       THEN {[deduplicated |-> [st.deduplicated EXCEPT ![FirstHit(fuzzy)] = merged],
              processed_names |-> st.processed_names \cup {normalized_name}]
             : merged \in MergeFuzzy(st.deduplicated[FirstHit(fuzzy)], concept,
                                     concept_name)}
       ELSE {[deduplicated |-> Append(st.deduplicated, concept),
              processed_names |-> st.processed_names \cup {normalized_name}]}

RECURSIVE DedupLoop(_, _, _)
DedupLoop(states, sorted_concepts, i) ==
    IF Evaluated(states) /\ i > Len(sorted_concepts) THEN states
    ELSE DedupLoop(UNION {DedupStep(st, sorted_concepts[i]) : st \in states},
                   sorted_concepts, i + 1)

\* Every list deduplicate_learning_concepts(cs) may return
deduplicate_learning_concepts(cs) ==
    IF cs = <<>> THEN {<<>>}
    ELSE {st.deduplicated :
            st \in DedupLoop({[deduplicated |-> <<>>, processed_names |-> {}]},
                             SortedByImportance(<<>>, cs, 1), 1)}

\* deduplicated_concepts = deduplicate_learning_concepts(all_concepts)
Deduplicate ==
    /\ dedup_calls = 0
    /\ deduplicated' \in deduplicate_learning_concepts(concepts)
    /\ dedup_calls' = 1
    /\ UNCHANGED <<concepts, rerun>>
    /\ UNCHANGED builderVars
    /\ UNCHANGED progressVars
    /\ UNCHANGED workflowVars
    /\ UNCHANGED filterVars
    /\ UNCHANGED pipelineVars

\* deduplicate_learning_concepts called on the list it returned
DeduplicateAgain ==
    /\ dedup_calls = 1
    /\ rerun' \in deduplicate_learning_concepts(deduplicated)
    /\ dedup_calls' = 2
    /\ UNCHANGED <<concepts, deduplicated>>
    /\ UNCHANGED builderVars
    /\ UNCHANGED progressVars
    /\ UNCHANGED workflowVars
    /\ UNCHANGED filterVars
    /\ UNCHANGED pipelineVars

-----------------------------------------------------------------------------
(* What build_graph_from_sources and generate_knowledge_graph_from_sources *)
(* give back to their caller                                               *)

\* No call has returned yet
NoResult ==
    [success |-> FALSE, error |-> "pending", nodes |-> <<>>, edges |-> <<>>,
     minimal_nodes |-> <<>>, minimal_edges |-> <<>>]

\* {"success": False, "error": ..., "nodes": [], "edges": [], "metadata": {}}
ErrorRecord(error) ==
    [success |-> FALSE, error |-> error, nodes |-> <<>>, edges |-> <<>>,
     minimal_nodes |-> <<>>, minimal_edges |-> <<>>]

\* The exception left the function: nothing was returned
Raised ==
    [success |-> FALSE, error |-> "raised", nodes |-> <<>>, edges |-> <<>>,
     minimal_nodes |-> <<>>, minimal_edges |-> <<>>]

PipelineIdle ==
    /\ entry = "none"
    /\ result = NoResult

\* No progress has been reported
ProgressIdle ==
    /\ progress_updates = <<>>
    /\ source_index = 0

-----------------------------------------------------------------------------
(* The source-collection workflow (source_collection_workflow.py): the     *)
(* nodes, the router should_continue and the conditional edges of          *)
(* create_source_collection_workflow.  A search result is a record with    *)
(* its reliability_score; the text fields are left out.                    *)

\* The search_limit of the run
SearchLimit == 6

\* The most results the searches of one run return together
MaxResults == 6

\* langgraph's END
END == "__end__"

\* "reliability_score": None, until the scoring step fills it
Unscored == 0 - 1

\* `queries` always ends up with exactly 5 entries
QueryCount == 5

\* ThreadPoolExecutor(max_workers=5)
max_workers == 5

\* The queries, by their index
Queries == [i \in 1..QueryCount |-> i]

\* initial_state of run_source_collection_workflow
SourceCollectionState(source_preferences, search_limit) ==
    [source_preferences |-> source_preferences,
     search_limit |-> search_limit,
     current_step |-> "",
     error_count |-> 0,
     retry_count |-> 0,
     search_queries |-> <<>>,
     raw_results |-> <<>>,
     scored_results |-> <<>>,
     filtered_results |-> <<>>,
     streamed_results |-> <<>>,
     success |-> FALSE,
     final_results |-> <<>>]

\* No thread pool is at work
NoPool == [kind |-> "none", queued |-> 0, loaded |-> <<>>, all_results |-> <<>>,
           start |-> 0, failed |-> 0]

\* run_sequential_fallback has not been called
NoFallback == [returned |-> FALSE, success |-> FALSE, results |-> <<>>]

WorkflowIdle ==
    /\ state = SourceCollectionState({}, 0)
    /\ node = "none"
    /\ route = "none"
    /\ pool = NoPool
    /\ fallback_results = NoFallback

\* should_continue(state)
should_continue(s) ==
    IF s.error_count > 10 THEN "error_handler"
    ELSE IF s.current_step = "initialize" THEN "generate_queries"
    ELSE IF s.current_step = "generate_queries"
    THEN (IF s.search_queries # <<>> THEN "search_sources" ELSE "error_handler")
    ELSE IF s.current_step = "search_sources"
    THEN (IF s.raw_results # <<>> THEN "deduplicate_sources" ELSE "error_handler")
    ELSE IF s.current_step = "deduplicate_sources"
    THEN (IF s.raw_results # <<>> THEN "score_reliability" ELSE "error_handler")
    ELSE IF s.current_step = "score_reliability"
    THEN (IF s.scored_results # <<>> THEN "stream_results" ELSE "error_handler")
    ELSE IF s.current_step = "stream_results"
    THEN (IF s.streamed_results # <<>> THEN "filter_results" ELSE "error_handler")
    ELSE IF s.current_step = "filter_results" THEN "finalize"
    ELSE IF s.current_step = "finalize" THEN END
    ELSE IF s.current_step = "error_handler" THEN END
    ELSE END

\* The path map add_conditional_edges gives each node: every key maps to the
\* node of the same name
PathMap(from) ==
    IF from = "initialize" THEN {"generate_queries", "error_handler"}
    ELSE IF from = "generate_queries" THEN {"search_sources", "error_handler"}
    ELSE IF from = "search_sources" THEN {"deduplicate_sources", "error_handler"}
    ELSE IF from = "deduplicate_sources" THEN {"score_reliability", "error_handler"}
    ELSE IF from = "score_reliability" THEN {"stream_results", "error_handler"}
    ELSE IF from = "stream_results" THEN {"filter_results", "error_handler"}
    ELSE IF from = "filter_results" THEN {"finalize"}
    ELSE {END}

\* The conditional edge out of node `from`: the router runs on the state the
\* node returned and its answer is looked up in the node's path map; an
\* answer the map lacks is a KeyError, which ends the run
ConditionalEdge(from, s) ==
    /\ route' = should_continue(s)
    /\ node' = IF should_continue(s) \in PathMap(from) THEN should_continue(s)
               ELSE "KeyError"

\* Node `name` returns the state s: its conditional edge follows
NodeReturns(name, s) ==
    /\ state' = s
    /\ ConditionalEdge(name, s)
    /\ UNCHANGED <<pool, fallback_results>>
    /\ UNCHANGED builderVars
    /\ UNCHANGED filterVars
    /\ UNCHANGED dedupVars
    /\ UNCHANGED progressVars
    /\ UNCHANGED pipelineVars

initialize_node ==
    /\ node = "initialize"
    /\ NodeReturns("initialize",
                   [state EXCEPT !.current_step = "initialize",
                                 !.error_count = 0,
                                 !.retry_count = 0])

\* generate_queries_node: the queries of the model, or after an exception one
\* more error and the fallback queries; five queries either way
generate_queries_node ==
    /\ node = "generate_queries"
    /\ \E errors \in {0, 1} :
          NodeReturns("generate_queries",
                      [state EXCEPT !.current_step = "generate_queries",
                                    !.error_count = @ + errors,
                                    !.search_queries = Queries])

\* The lists made of the first k entries of s
Prefixes(s) == {SubSeq(s, 1, k) : k \in 0..Len(s)}

\* deduplicate_sources_node: a result stays unless its URL is empty or seen
\* before, or its title is similar to one that stayed.  URLs and titles are
\* the search service's, so any number of the results may stay
deduplicate_sources_node ==
    /\ node = "deduplicate_sources"
    /\ \E kept \in Prefixes(state.raw_results) :
          NodeReturns("deduplicate_sources",
                      [state EXCEPT !.current_step = "deduplicate_sources",
                                    !.raw_results = kept])

\* sorted(results, key=lambda x: x.get("reliability_score", 0), reverse=True):
\* stable, so a result goes in front of the first one of strictly lower score
InsertByReliability(sorted, r) ==
    LET lower == {k \in DOMAIN sorted : sorted[k].reliability_score < r.reliability_score}
        at == IF lower = {} THEN Len(sorted) + 1
              ELSE CHOOSE k \in lower : \A j \in lower : k <= j
    IN SubSeq(sorted, 1, at - 1) \o <<r>> \o SubSeq(sorted, at, Len(sorted))

RECURSIVE SortByReliability(_, _, _)
SortByReliability(sorted, rs, i) ==
    IF Evaluated(sorted) /\ i > Len(rs) THEN sorted
    ELSE SortByReliability(InsertByReliability(sorted, rs[i]), rs, i + 1)

stream_results_node ==
    /\ node = "stream_results"
    /\ NodeReturns("stream_results",
                   [state EXCEPT !.current_step = "stream_results",
                                 !.streamed_results =
                                     SortByReliability(<<>>, state.scored_results, 1)])

\* filter_func of filter_results_node
filter_func(source_preferences, score) ==
    LET has_reliable == "reliable" \in source_preferences
        has_unreliable == "unreliable" \in source_preferences
    IN IF has_reliable /\ ~has_unreliable THEN score >= 60
       ELSE IF ~has_reliable /\ has_unreliable THEN score <= 40
       ELSE score >= 60 \/ score <= 40

\* state["filtered_results"] after filter_results_node
filter_results(source_preferences, streamed_results) ==
    SortByReliability(<<>>,
        SelectSeq(streamed_results,
                  LAMBDA r : filter_func(source_preferences, r.reliability_score)), 1)

filter_results_node ==
    /\ node = "filter_results"
    /\ NodeReturns("filter_results",
                   [state EXCEPT !.current_step = "filter_results",
                                 !.filtered_results =
                                     filter_results(state.source_preferences,
                                                    state.streamed_results)])

finalize_node ==
    /\ node = "finalize"
    /\ NodeReturns("finalize",
                   [state EXCEPT !.current_step = "finalize",
                                 !.success = TRUE,
                                 !.final_results = state.filtered_results])

\* error_handler_node: the best partial results there are become the final ones
error_handler_node ==
    LET partial == IF state.streamed_results # <<>> THEN state.streamed_results
                   ELSE IF state.filtered_results # <<>> THEN state.filtered_results
                   ELSE state.scored_results
    IN /\ node = "error_handler"
       /\ NodeReturns("error_handler",
                      [state EXCEPT !.current_step = "error_handler",
                                    !.retry_count = @ + 1,
                                    !.success = partial # <<>>,
                                    !.final_results = partial])

\* A result of the search, not scored yet
RawResult == [reliability_score |-> Unscored]

\* The copy of a result with its score filled in
ScoredResult(score) == [reliability_score |-> score]

\* The score the language model gives a source
ModelScore == 70

\* generate_domain_score(url) for one of the "com" addresses: random.randint(40, 70)
DomainScore == 50

\* s with one more entry x, kept in ascending order: the values that worker
\* threads hold between reading error_count and writing it back
RECURSIVE InsertSorted(_, _)
InsertSorted(s, x) ==
    IF s = <<>> THEN <<x>>
    ELSE IF x <= Head(s) THEN <<x>> \o s
    ELSE <<Head(s)>> \o InsertSorted(Tail(s), x)

RemoveAt(s, i) == SubSeq(s, 1, i - 1) \o SubSeq(s, i + 1, Len(s))

\* generate_fallback_search_results(queries, limit): one result per query of
\* queries[:limit]
generate_fallback_search_results(queries, limit) ==
    [i \in 1..Min2(Len(queries), limit) |-> RawResult]

PoolUnchanged ==
    /\ UNCHANGED fallback_results
    /\ UNCHANGED builderVars
    /\ UNCHANGED filterVars
    /\ UNCHANGED dedupVars
    /\ UNCHANGED progressVars
    /\ UNCHANGED pipelineVars

\* search_sources_node up to the thread pool: without a usable Tavily client
\* the except block counts an error, takes the fallback results and the node
\* returns; else one task per query is submitted
search_sources_node ==
    /\ node = "search_sources"
    /\ pool = NoPool
    /\ \/ LET s == [state EXCEPT !.current_step = "search_sources",
                                 !.error_count = @ + 1,
                                 !.raw_results =
                                     generate_fallback_search_results(state.search_queries,
                                                                      state.search_limit)]
          IN /\ state' = s
             /\ ConditionalEdge("search_sources", s)
             /\ UNCHANGED pool
       \/ /\ state' = [state EXCEPT !.current_step = "search_sources"]
          /\ pool' = [NoPool EXCEPT !.kind = "search",
                                    !.queued = Len(state.search_queries),
                                    !.start = state.error_count]
          /\ UNCHANGED <<node, route>>
    /\ PoolUnchanged

\* search_single_query_sync in a worker thread: the search returns no result
\* or search_limit results, which as_completed hands to all_results; or it
\* raises and the except block reads state["error_count"]
search_single_query_sync ==
    /\ pool.kind = "search"
    /\ pool.queued > 0
    /\ Len(pool.loaded) < max_workers
    /\ \/ /\ \E found \in {0, state.search_limit} :
                /\ Len(pool.all_results) + found <= MaxResults
                /\ pool' = [pool EXCEPT !.queued = @ - 1,
                                        !.all_results = @ \o [i \in 1..found |-> RawResult]]
          /\ UNCHANGED state
       \/ /\ pool' = [pool EXCEPT !.queued = @ - 1,
                                  !.loaded = InsertSorted(@, state.error_count),
                                  !.failed = @ + 1]
          /\ UNCHANGED state
    /\ UNCHANGED <<node, route>>
    /\ PoolUnchanged

\* score_single_result_sync in a worker thread: the model's score is filled
\* in and as_completed hands the copy to scored_results; or the call raises
\* and the except block reads state["error_count"]
score_single_result_sync ==
    /\ pool.kind = "score"
    /\ pool.queued > 0
    /\ Len(pool.loaded) < max_workers
    /\ \/ pool' = [pool EXCEPT !.queued = @ - 1,
                               !.all_results = Append(@, ScoredResult(ModelScore))]
       \/ pool' = [pool EXCEPT !.queued = @ - 1,
                               !.loaded = InsertSorted(@, state.error_count),
                               !.failed = @ + 1]
    /\ UNCHANGED <<state, node, route>>
    /\ PoolUnchanged

\* The second half of `state["error_count"] += 1` in a worker thread: the
\* value read, plus one, is written back; a failed search then returns [], a
\* failed scoring the copy with the domain score
increment_error_count ==
    /\ pool.kind \in {"search", "score"}
    /\ \E i \in DOMAIN pool.loaded :
          /\ state' = [state EXCEPT !.error_count = pool.loaded[i] + 1]
          /\ pool' = [pool EXCEPT
                        !.loaded = RemoveAt(@, i),
                        !.all_results = IF pool.kind = "score"
                                        THEN Append(@, ScoredResult(DomainScore)) ELSE @]
    /\ UNCHANGED <<node, route>>
    /\ PoolUnchanged

\* The pool has run every task
PoolFinished(kind) ==
    /\ pool.kind = kind
    /\ pool.queued = 0
    /\ pool.loaded = <<>>

\* search_sources_node after the `with` block: state["raw_results"] = all_results
search_sources_node_return ==
    /\ node = "search_sources"
    /\ PoolFinished("search")
    /\ LET s == [state EXCEPT !.raw_results = pool.all_results]
       IN /\ state' = s
          /\ ConditionalEdge("search_sources", s)
    /\ pool' = NoPool
    /\ PoolUnchanged

\* score_reliability_node up to the thread pool: without a usable OpenAI
\* client the except block counts an error and scores every result by its
\* domain; else one task per result is submitted
score_reliability_node ==
    /\ node = "score_reliability"
    /\ pool = NoPool
    /\ \/ LET s == [state EXCEPT !.current_step = "score_reliability",
                                 !.error_count = @ + 1,
                                 !.scored_results =
                                     [i \in DOMAIN state.raw_results |-> ScoredResult(DomainScore)]]
          IN /\ state' = s
             /\ ConditionalEdge("score_reliability", s)
             /\ UNCHANGED pool
       \/ /\ state' = [state EXCEPT !.current_step = "score_reliability"]
          /\ pool' = [NoPool EXCEPT !.kind = "score",
                                    !.queued = Len(state.raw_results),
                                    !.start = state.error_count]
          /\ UNCHANGED <<node, route>>
    /\ PoolUnchanged

\* score_reliability_node after the `with` block: state["scored_results"] = scored_results
score_reliability_node_return ==
    /\ node = "score_reliability"
    /\ PoolFinished("score")
    /\ LET s == [state EXCEPT !.scored_results = pool.all_results]
       IN /\ state' = s
          /\ ConditionalEdge("score_reliability", s)
    /\ pool' = NoPool
    /\ PoolUnchanged

-----------------------------------------------------------------------------
(* SpecBuild: _build_graph_structure on every small list of nodes and      *)
(* sources                                                                 *)

MaxBuildNodes == 3

MaxBuildSources == 3

\* Labels that contain one another, differ by case only, or hold a space
BuildLabels == {<<"a">>, <<"B">>, <<"a", "b">>, <<"a", " ", "b">>}

BuildNodeUniverse == {MkNode("concept", l, 1) : l \in BuildLabels}

\* Texts: a label inside the content, in the title, across the two, in upper case
BuildTexts ==
    {[content |-> <<"a", "b">>, title |-> <<>>],
     [content |-> <<"a">>, title |-> <<"b">>],
     [content |-> <<"A">>, title |-> <<>>],
     [content |-> <<"b", "a">>, title |-> <<"B">>],
     [content |-> <<>>, title |-> <<>>],
     [content |-> <<"c">>, title |-> <<"a", "b">>]}

InitBuild ==
    /\ pc = "build_graph_structure"
    /\ all_nodes \in DistinctSeqsUpTo(BuildNodeUniverse, MaxBuildNodes)
    /\ sources \in SeqsUpTo(BuildTexts, MaxBuildSources)
    /\ graph = EmptyGraph
    /\ topic = <<>>
    /\ centrality_scores = NoScores
    /\ minimal_subgraph = None
    /\ components = <<>>
    /\ mst_edges = EmptyUGraph
    /\ component_connectors = <<>>
    /\ subgraph_path = "none"
    /\ FilterIdle
    /\ DedupIdle
    /\ PipelineIdle
    /\ WorkflowIdle
    /\ ProgressIdle

NextBuild == _build_graph_structure

SpecBuild == InitBuild /\ [][NextBuild]_vars

\* The number of sources whose lower-cased content+title holds both labels
SourcesWithBoth(a, b) ==
    Cardinality({s \in DOMAIN sources :
        /\ Contains(Lower(graph.data[a].label), SourceText(sources[s]))
        /\ Contains(Lower(graph.data[b].label), SourceText(sources[s]))})

Built == pc = "calculate_centrality_metrics"

EdgeSet(G) == DOMAIN G.edata

\* No ordered pair is filed twice among a node's successors
NoParallelEdges(G) ==
    \A n \in NodeSet(G) : \A i, j \in DOMAIN G.succ[n] :
        G.succ[n][i] = G.succ[n][j] => i = j

\* C3 as stated: two distinct nodes whose labels co-occur in k >= 2 sources are
\* joined by exactly one edge, the pair being stored once.
C3_OneEdgePerPair ==
    Built =>
        \A a, b \in NodeSet(graph) :
            (a # b /\ SourcesWithBoth(a, b) >= 2) =>
                ~(has_edge(graph, a, b) /\ has_edge(graph, b, a))

\* C3 amended: two distinct nodes whose labels co-occur in k >= 2 sources are
\* joined by one edge in each direction, a -> b and b -> a, both of weight k, and
\* no ordered (source, target) pair is stored more than once.
C3_OneEdgePerDirection ==
    Built =>
        /\ NoParallelEdges(graph)
        /\ Len(EdgeList(graph, 1)) = Cardinality(EdgeSet(graph))
        /\ \A a, b \in NodeSet(graph) :
              (a # b /\ SourcesWithBoth(a, b) >= 2) =>
                  /\ has_edge(graph, a, b) /\ has_edge(graph, b, a)
                  /\ graph.edata[<<a, b>>].weight = SourcesWithBoth(a, b)
                  /\ graph.edata[<<b, a>>].weight = SourcesWithBoth(a, b)

\* Two nodes whose labels co-occur in three sources (Scenario A) have been built
C3_Witness ==
    /\ Built
    /\ \E a, b \in NodeSet(graph) :
          a # b /\ SourcesWithBoth(a, b) = 3 /\ has_edge(graph, a, b)

\* C4: after _build_graph_structure an edge joins a and b if and only if at
\* least two sources hold both labels, and its weight is that number of sources
\* (so every weight is at least 2).
C4_EdgeIffCooccurrence ==
    Built =>
        /\ \A a, b \in NodeSet(graph) :
              a # b => (has_edge(graph, a, b) <=> SourcesWithBoth(a, b) >= 2)
        /\ \A e \in EdgeSet(graph) :
              /\ graph.edata[e].weight = SourcesWithBoth(e[1], e[2])
              /\ graph.edata[e].weight >= 2

\* A pair that shares exactly one source (no edge) beside a pair that shares two
C4_Witness ==
    /\ Built
    /\ \E a, b, c \in NodeSet(graph) :
          /\ a # b /\ a # c /\ b # c
          /\ SourcesWithBoth(a, b) = 1 /\ ~has_edge(graph, a, b)
          /\ SourcesWithBoth(a, c) = 2 /\ has_edge(graph, a, c)

\* C5: the graph _build_graph_structure produces has no edge from a node to itself.
C5_NoSelfLoops ==
    Built => \A e \in EdgeSet(graph) : e[1] # e[2]

\* A graph with edges, built from a source in which a label occurs twice over
C5_Witness ==
    /\ Built
    /\ EdgeSet(graph) # {}
    /\ \E s \in DOMAIN sources : sources[s].content = <<"b", "a">>

-----------------------------------------------------------------------------
(* SpecMST: one build, from the sources to the minimal subgraph, on every  *)
(* co-occurrence graph over a few nodes and on the graph of Scenario B     *)

MaxNodes == 3

NodeLabels == <<"a", "b", "c", "d", "e", "f", "g", "h", "i", "j">>

\* How many sources mention both nodes of a pair: none, two or three
CoCounts == {0, 2, 3}

PairsOf(n) == {p \in (1..n) \X (1..n) : p[1] < p[2]}

\* n extracted concepts, labelled by one letter each
NodesFor(n) == [i \in 1..n |-> MkNode("concept", <<NodeLabels[i]>>, 1)]

\* count copies of a source whose content mentions the labels i and j
RECURSIVE Copies(_, _)
Copies(doc, count) == IF count = 0 THEN <<>> ELSE <<doc>> \o Copies(doc, count - 1)

\* The sources that make pair (i, j) co-occur counts[<<i, j>>] times
RECURSIVE SourcesFor(_, _, _, _)
SourcesFor(n, counts, i, j) ==
    IF i >= n THEN <<>>
    ELSE IF j > n THEN SourcesFor(n, counts, i + 1, i + 2)
    ELSE Copies([content |-> <<NodeLabels[i], " ", NodeLabels[j]>>, title |-> <<>>],
                counts[<<i, j>>])
         \o SourcesFor(n, counts, i, j + 1)

\* Scenario B: components of sizes 5, 3 and 2 (a star, a path, a pair)
ScenarioBCounts ==
    [p \in PairsOf(10) |->
        IF p \in {<<1, 2>>, <<1, 3>>, <<1, 4>>, <<1, 5>>, <<2, 3>>} THEN 2
        ELSE IF p \in {<<6, 7>>, <<7, 8>>} THEN 3
        ELSE IF p = <<9, 10>> THEN 2
        ELSE 0]

InitMST ==
    /\ pc = "build_graph_structure"
    /\ \/ \E n \in 0..MaxNodes : \E counts \in [PairsOf(n) -> CoCounts] :
             /\ all_nodes = NodesFor(n)
             /\ sources = SourcesFor(n, counts, 1, 2)
       \/ /\ all_nodes = NodesFor(10)
          /\ sources = SourcesFor(10, ScenarioBCounts, 1, 2)
    /\ graph = EmptyGraph
    /\ topic = <<>>
    /\ centrality_scores = NoScores
    /\ minimal_subgraph = None
    /\ components = <<>>
    /\ mst_edges = EmptyUGraph
    /\ component_connectors = <<>>
    /\ subgraph_path = "none"
    /\ FilterIdle
    /\ DedupIdle
    /\ PipelineIdle
    /\ WorkflowIdle
    /\ ProgressIdle

NextMST ==
    \/ _build_graph_structure
    \/ _calculate_centrality_metrics
    \/ _find_minimal_subgraph

SpecMST == InitMST /\ [][NextMST]_vars

\* The nodes that a path of edges, taken in either direction, joins to S
RECURSIVE WeakReach(_, _)
WeakReach(D, S) ==
    LET next == S \cup {n \in NodeSet(D) :
                    \E m \in S : <<m, n>> \in EdgeSet(D) \/ <<n, m>> \in EdgeSet(D)}
    IN IF next = S THEN S ELSE WeakReach(D, next)

\* The connected components of the undirected projection of D
WeakComponents(D) == {WeakReach(D, {n}) : n \in NodeSet(D)}

ExtractedByMst == pc = "generate_node_embeddings" /\ subgraph_path = "mst"

\* The unordered pairs of the minimal subgraph tagged inter_component
InterComponentPairs(D) ==
    {{e[1], e[2]} : e \in {x \in EdgeSet(D) : D.edata[x].connection_type = "inter_component"}}

\* C1: for a full graph of |V| nodes whose undirected projection is one connected
\* component, the spanning tree _find_minimal_subgraph computes has exactly
\* |V| - 1 undirected edges and the minimal subgraph built from it is weakly
\* connected.
C1_SpanningTree ==
    (ExtractedByMst /\ Cardinality(WeakComponents(graph)) = 1) =>
        /\ Cardinality(UEdgeSet(mst_edges)) = Len(graph.nodes) - 1
        /\ Cardinality(WeakComponents(minimal_subgraph.G)) = 1
        /\ NodeSet(minimal_subgraph.G) = NodeSet(graph)

\* A connected full graph with a cycle, so that the tree leaves an edge out
C1_Witness ==
    /\ ExtractedByMst
    /\ Cardinality(WeakComponents(graph)) = 1
    /\ Len(graph.nodes) >= 3
    /\ Cardinality(EdgeSet(graph)) > 2 * (Len(graph.nodes) - 1)
    /\ \E e \in EdgeSet(graph) : graph.edata[e].weight = 3

\* C2: for a full graph with k >= 2 connected components the extractor adds
\* exactly k - 1 inter-component connector edges, all incident on one hub
\* connector, and the minimal subgraph has exactly one connected component; the
\* minimal subgraph is weakly connected whenever the full graph has an edge and
\* the top-importance fallback was not taken.
C2_StarConnects ==
    ExtractedByMst =>
        LET k == Cardinality(WeakComponents(graph))
            star == {e \in UEdgeSet(mst_edges) :
                        mst_edges.edata[e].connection_type = "inter_component"}
        IN /\ k >= 2 =>
                /\ Cardinality(star) = k - 1
                /\ \E hub \in NodeSet(graph) : \A e \in star : hub \in e
                /\ InterComponentPairs(minimal_subgraph.G) = star
                /\ Cardinality(WeakComponents(minimal_subgraph.G)) = 1
           /\ EdgeSet(graph) # {} =>
                Cardinality(WeakComponents(minimal_subgraph.G)) = 1

\* Scenario B: components of sizes 5, 3 and 2 joined into one
C2_Witness ==
    /\ ExtractedByMst
    /\ {Cardinality(c) : c \in WeakComponents(graph)} = {5, 3, 2}
    /\ Cardinality(WeakComponents(graph)) = 3
    /\ Cardinality(InterComponentPairs(minimal_subgraph.G)) = 2

\* C10: every node of the minimal subgraph is a node of the full graph, and every
\* edge of the minimal subgraph either is tagged inter_component or joins two
\* nodes that an edge of the full graph joins and carries that edge's weight.
C10_TracesToFullGraph ==
    (pc = "generate_node_embeddings" /\ subgraph_path \in {"mst", "fallback"}) =>
        /\ NodeSet(minimal_subgraph.G) \subseteq NodeSet(graph)
        /\ \A e \in EdgeSet(minimal_subgraph.G) :
              \/ minimal_subgraph.G.edata[e].connection_type = "inter_component"
              \/ \E f \in {e, <<e[2], e[1]>>} \cap EdgeSet(graph) :
                    minimal_subgraph.G.edata[e].weight = graph.edata[f].weight

\* A minimal subgraph holding a connector edge beside a co-occurrence edge of weight 3
C10_Witness ==
    /\ ExtractedByMst
    /\ \E e, f \in EdgeSet(minimal_subgraph.G) :
          /\ minimal_subgraph.G.edata[e].connection_type = "inter_component"
          /\ minimal_subgraph.G.edata[f].connection_type = "intra_component"
          /\ minimal_subgraph.G.edata[f].weight = 3

\* C15: when _find_minimal_subgraph meets a failure, in building the spanning
\* tree or in turning it into a DiGraph, the build goes on and the minimal
\* subgraph is the subgraph induced by the top min(50, max(10, 30% of n)) nodes.
C15_FallbackOnFailure ==
    subgraph_path \in {"raised", "fallback"} =>
        /\ pc # "failed"
        /\ ~minimal_subgraph.is_none
        /\ \E selected \in TopSelections(graph, centrality_scores,
                                         TargetSize(Len(graph.nodes))) :
              minimal_subgraph.G = InducedSubgraph(graph, selected)

\* C16: once _calculate_centrality_metrics has returned on a graph with
\* nodes, the scores hold all four measures, each over every node, and are
\* either networkx's measures (eigenvector possibly degree centrality) or
\* degree centrality for all four.
C16_AllFourOrAllDegree ==
    (pc \in {"find_minimal_subgraph", "generate_node_embeddings", "failed"}
     /\ Len(graph.nodes) > 0) =>
        /\ DOMAIN centrality_scores = Measures
        /\ \A m \in Measures : centrality_scores[m].over = NodeSet(graph)
        /\ \/ \A m \in Measures : centrality_scores[m].mode = "degree"
           \/ /\ \A m \in Measures \ {"eigenvector"} : centrality_scores[m].mode = "nx"
              /\ centrality_scores["eigenvector"].mode \in {"nx", "degree"}

\* The except block has run on a graph of several nodes
C16_Witness ==
    /\ pc = "find_minimal_subgraph"
    /\ Len(graph.nodes) >= 2
    /\ DOMAIN centrality_scores = Measures
    /\ \A m \in Measures : centrality_scores[m].mode = "degree"

-----------------------------------------------------------------------------
(* SpecFilter: _filter_nodes_by_topic_relevance on built graphs of every   *)
(* size up to MaxFilterNodes and of a few larger sizes, under every        *)
(* configuration of FilterConfigs                                          *)

MaxFilterNodes == 12

\* Sizes at which 10% of the nodes is more than 10, or is no whole number
LargeCounts == {30, 105, 120}

DigitChars == <<"0", "1", "2", "3", "4", "5", "6", "7", "8", "9">>

\* str(i)
RECURSIVE Digits(_)
Digits(i) ==
    IF i < 10 THEN <<DigitChars[i + 1]>>
    ELSE Digits(i \div 10) \o <<DigitChars[(i % 10) + 1]>>

\* The i-th extracted node: every third label holds the word "a", every
\* fourth the word "B"; frequencies run over 1..12
FilterNode(i) ==
    MkNode(IF i % 2 = 1 THEN "concept" ELSE "entity",
           (IF i % 3 = 0 THEN <<"a", " ">> ELSE <<>>)
           \o (IF i % 4 = 0 THEN <<"B", " ">> ELSE <<>>)
           \o <<"n">> \o Digits(i),
           ((i * 7) % 12) + 1)

\* Co-occurrence edges, stored in both directions, between nodes 1-2, 3-4, ...
RECURSIVE FilterEdges(_, _, _)
FilterEdges(G, nodes, i) ==
    IF Evaluated(G) /\ i + 1 > Len(nodes) THEN G
    ELSE FilterEdges(
            add_edge(add_edge(G, nodes[i].id, nodes[i + 1].id,
                              [weight |-> 2, connection_type |-> "unset"]),
                     nodes[i + 1].id, nodes[i].id,
                     [weight |-> 2, connection_type |-> "unset"]),
            nodes, i + 2)

FilterGraph(n) ==
    LET nodes == [i \in 1..n |-> FilterNode(i)]
    IN FilterEdges(AddAllNodes(EmptyGraph, nodes, 1), nodes, 1)

FilterTopics == {<<>>, <<" ">>, <<"a", " ", "b">>}

FilterConfigs ==
    [relevance_threshold : {Frac(3, 10), Frac(1, 2)},
     enable_semantic_filtering : BOOLEAN,
     max_nodes_before_filtering : {0, 11, 1000}]

MaxScenarioNodes == 3

\* Scenario C: the topic "machine learning", with sklearn missing
ScenarioCTopic ==
    <<"m", "a", "c", "h", "i", "n", "e", " ", "l", "e", "a", "r", "n", "i", "n", "g">>

NeuralNetwork ==
    <<"N", "e", "u", "r", "a", "l", " ", "N", "e", "t", "w", "o", "r", "k">>

CookingRecipe ==
    <<"C", "o", "o", "k", "i", "n", "g", " ", "R", "e", "c", "i", "p", "e">>

DeepLearning ==
    <<"D", "e", "e", "p", " ", "L", "e", "a", "r", "n", "i", "n", "g">>

ScenarioCNodes ==
    {MkNode(type, label, frequency) :
        type \in {"concept", "entity"},
        label \in {NeuralNetwork, CookingRecipe, DeepLearning},
        frequency \in {2, 10}}

\* The lists of at most MaxScenarioNodes nodes of Scenario C with distinct ids
ScenarioCLists ==
    {nodes \in SeqsUpTo(ScenarioCNodes, MaxScenarioNodes) :
        \A i, j \in DOMAIN nodes : nodes[i].id = nodes[j].id => i = j}

InitFilter ==
    /\ pc = "filter_nodes_by_topic_relevance"
    /\ sources = <<>>
    /\ all_nodes = <<>>
    /\ \/ /\ topic \in FilterTopics
          /\ \E n \in (0..MaxFilterNodes) \cup LargeCounts : graph = FilterGraph(n)
          /\ topic_config \in FilterConfigs
          /\ sentence_transformer \in BOOLEAN
          /\ SKLEARN_AVAILABLE \in BOOLEAN
       \/ /\ topic = ScenarioCTopic
          /\ \E nodes \in ScenarioCLists : graph = AddAllNodes(EmptyGraph, nodes, 1)
          /\ topic_config = [TopicRelevanceConfig EXCEPT !.max_nodes_before_filtering = 0]
          /\ sentence_transformer = TRUE
          /\ SKLEARN_AVAILABLE = FALSE
    /\ centrality_scores = NoScores
    /\ minimal_subgraph = None
    /\ components = <<>>
    /\ mst_edges = EmptyUGraph
    /\ component_connectors = <<>>
    /\ subgraph_path = "none"
    /\ current_node_count = 0
    /\ relevance_scores = Scoring("none", NoScores)
    /\ filter_path = "none"
    /\ DedupIdle
    /\ PipelineIdle
    /\ WorkflowIdle
    /\ ProgressIdle

NextFilter == _filter_nodes_by_topic_relevance

SpecFilter == InitFilter /\ [][NextFilter]_vars

FilterDone == filter_path # "none"

\* C6 as stated: after the filter has run, the node count is at least
\* max(10, 10% of the node count before the filter).
C6_AtLeastFloor ==
    FilterDone => 10 * Len(graph.nodes) >= Max2(100, current_node_count)

\* C6: after the filter has run on a graph of n nodes, the node count is at
\* least min(n, max(10, floor(n / 10))).
C6_AtLeastFloorOrAll ==
    FilterDone =>
        Len(graph.nodes) >= Min2(current_node_count,
                                 Max2(10, current_node_count \div 10))

\* 120 nodes, fewer than 12 of them at the threshold: the 12 best are left
C6_Witness ==
    /\ FilterDone
    /\ filter_path = "top"
    /\ current_node_count = 120
    /\ Len(graph.nodes) = 12

\* C11: a call of the filter leaves the graph as it is whenever the topic is
\* empty or the node count is not above max_nodes_before_filtering.
C11_NoOpUnlessAbove ==
    [][(pc = "filter_nodes_by_topic_relevance"
        /\ (topic = <<>>
            \/ Len(graph.nodes) <= topic_config.max_nodes_before_filtering))
       => graph' = graph]_vars

\* The filter went as far as its removal rule
FilterApplied == filter_path \in {"threshold", "top", "all_kept"}

\* The nodes, of those the filter scored, whose score is at least the threshold
ReachThreshold ==
    {n \in DOMAIN relevance_scores.scores :
        ~FracLess(relevance_scores.scores[n], topic_config.relevance_threshold)}

\* No node that is gone scored higher than a node that is left
HighestScoringLeft ==
    \A k \in NodeSet(graph) :
        \A r \in (DOMAIN relevance_scores.scores) \ NodeSet(graph) :
            ~FracLess(relevance_scores.scores[k], relevance_scores.scores[r])

\* C12 as stated: the nodes left are those at or above the threshold, unless
\* fewer than max(10, 10% of n) reach it, and then exactly max(10, 10% of n)
\* highest-scoring nodes are left.
C12_ThresholdOrFloor ==
    FilterApplied =>
        IF Cardinality(ReachThreshold) >= Max2(10, current_node_count \div 10)
        THEN NodeSet(graph) = ReachThreshold
        ELSE /\ Len(graph.nodes) = Max2(10, current_node_count \div 10)
             /\ HighestScoringLeft

\* C12: the nodes left are those at or above the threshold, unless fewer than
\* max(10, floor(n / 10)) reach it, and then min(n, max(10, floor(n / 10)))
\* highest-scoring nodes are left.
C12_ThresholdOrFloorOrAll ==
    FilterApplied =>
        IF Cardinality(ReachThreshold) >= Max2(10, current_node_count \div 10)
        THEN NodeSet(graph) = ReachThreshold
        ELSE /\ Len(graph.nodes) = Min2(current_node_count,
                                        Max2(10, current_node_count \div 10))
             /\ HighestScoringLeft

\* Too few nodes reach the threshold: some below it are left, others are gone
C12_Witness ==
    /\ filter_path = "top"
    /\ Len(graph.nodes) < current_node_count
    /\ NodeSet(graph) \ ReachThreshold # {}
    /\ ReachThreshold # {}

\* C13: when the filter is called with a non-blank topic, enabled, on a graph
\* of more than max_nodes_before_filtering nodes, and the sentence transformer
\* or sklearn is missing, the context scores are computed for the nodes and
\* the removal rule is applied to them.
C13_LexicalFallback ==
    (/\ FilterDone
     /\ strip(topic) # <<>>
     /\ topic_config.enable_semantic_filtering
     /\ current_node_count > topic_config.max_nodes_before_filtering
     /\ ~sentence_transformer \/ ~SKLEARN_AVAILABLE)
    => /\ relevance_scores.by = "context"
       /\ FilterApplied

\* Two nodes of the graph with these labels, of one kind and one frequency
SameKindAndFrequency(a, label_a, b, label_b) ==
    /\ graph.data[a].label = label_a
    /\ graph.data[b].label = label_b
    /\ graph.data[a].type = graph.data[b].type
    /\ graph.data[a].frequency = graph.data[b].frequency

ScoredInScenarioC ==
    FilterDone /\ topic = ScenarioCTopic /\ relevance_scores.by = "context"

\* C14 as stated: under the context scores for the topic "machine learning", a
\* node "Neural Network" scores strictly higher than a node "Cooking Recipe"
\* of the same kind and frequency.
C14_NeuralNetworkHigher ==
    ScoredInScenarioC =>
        \A a, b \in NodeSet(graph) :
            SameKindAndFrequency(a, NeuralNetwork, b, CookingRecipe) =>
                FracLess(relevance_scores.scores[b], relevance_scores.scores[a])

\* C14: under the context scores for the topic "machine learning", a node
\* "Neural Network" and a node "Cooking Recipe" of the same kind and frequency
\* score the same, neither label holding a word of the topic; a node "Deep
\* Learning" of that kind and frequency scores strictly higher than both.
C14_OnlySharedWordsCount ==
    ScoredInScenarioC =>
        \A a, b \in NodeSet(graph) :
            /\ SameKindAndFrequency(a, NeuralNetwork, b, CookingRecipe) =>
                  /\ ~FracLess(relevance_scores.scores[b], relevance_scores.scores[a])
                  /\ ~FracLess(relevance_scores.scores[a], relevance_scores.scores[b])
            /\ (/\ graph.data[a].label \in {NeuralNetwork, CookingRecipe}
                /\ SameKindAndFrequency(a, graph.data[a].label, b, DeepLearning)) =>
                  FracLess(relevance_scores.scores[a], relevance_scores.scores[b])

\* The three labels scored side by side, as nodes of one kind and frequency
C14_Witness ==
    /\ ScoredInScenarioC
    /\ \E a, b, c \in NodeSet(graph) :
          /\ SameKindAndFrequency(a, NeuralNetwork, b, CookingRecipe)
          /\ SameKindAndFrequency(a, NeuralNetwork, c, DeepLearning)

-----------------------------------------------------------------------------
(* SpecDedup: deduplicate_learning_concepts on every list of at most       *)
(* MaxConcepts concepts, then on the list it returned                      *)

MaxConcepts == 3

\* Names that the plural, gerund, synonym and short-name rules relate, that
\* differ by case only, and a blank name
ConceptNames ==
    {<<"n", "e", "t", "w", "o", "r", "k">>,
     <<"N", "e", "t", "w", "o", "r", "k">>,
     <<"n", "e", "t", "w", "o", "r", "k", "i", "n", "g">>,
     <<"n", "e", "t", "w", "o", "r", "k", "i", "n", "g", "s">>,
     <<"A", "l", "g", "o", "r", "i", "t", "h", "m">>,
     <<"A", "l", "g", "o", "r", "i", "t", "h", "m", "s">>,
     <<"n", "e", "t">>,
     <<" ", " ">>}

\* A concept as generate_learning_plan_from_minimal_subgraph hands it over: at
\* most 5 source references, and the resources of generate_enhanced_resources
\* (a primary source, two related readings and a tutorial at most)
ConceptUniverse ==
    {[name |-> n, importance_score |-> 2, time_estimate |-> 1,
      description |-> <<"d">>,
      source_references |-> {"r1", "r2", "r3"},
      resources |-> <<"x1", "x2">>] : n \in ConceptNames}
    \cup
    {[name |-> n, importance_score |-> 1, time_estimate |-> 2,
      description |-> <<"d", "d">>,
      source_references |-> {"r3", "r4", "r5", "r6"},
      resources |-> <<"x2", "x3", "x4", "x5">>] : n \in ConceptNames}

InitDedup ==
    /\ concepts \in SeqsUpTo(ConceptUniverse, MaxConcepts)
    /\ deduplicated = <<>>
    /\ rerun = <<>>
    /\ dedup_calls = 0
    /\ pc = "idle"
    /\ sources = <<>>
    /\ all_nodes = <<>>
    /\ topic = <<>>
    /\ graph = EmptyGraph
    /\ centrality_scores = NoScores
    /\ minimal_subgraph = None
    /\ components = <<>>
    /\ mst_edges = EmptyUGraph
    /\ component_connectors = <<>>
    /\ subgraph_path = "none"
    /\ FilterIdle
    /\ PipelineIdle
    /\ WorkflowIdle
    /\ ProgressIdle

NextDedup ==
    \/ Deduplicate
    \/ DeduplicateAgain

SpecDedup == InitDedup /\ [][NextDedup]_vars

NamesOf(cs) == [i \in DOMAIN cs |-> cs[i].name]

\* Two display names that are equal but for case, or that _are_similar_concepts
\* relates once they are normalised as deduplicate_learning_concepts normalises
DuplicateNames(a, b) ==
    \/ Lower(a) = Lower(b)
    \/ _are_similar_concepts(strip(Lower(a)), strip(Lower(b)))

\* C7: deduplicate_learning_concepts, run on the list it returned, returns a
\* list of as many records with the same names in the same order.
C7_Idempotent ==
    dedup_calls = 2 => NamesOf(rerun) = NamesOf(deduplicated)

\* C8: no two records of the returned list have names that are equal but for
\* case or that the fuzzy rules relate.
C8_NoDuplicateNames ==
    dedup_calls >= 1 =>
        \A i, j \in DOMAIN deduplicated :
            i < j => ~DuplicateNames(deduplicated[i].name, deduplicated[j].name)

\* C9: every record of the returned list has at most 5 source references and at
\* most 3 resources.
C9_Capped ==
    dedup_calls >= 1 =>
        \A i \in DOMAIN deduplicated :
            /\ Cardinality(deduplicated[i].source_references) <= 5
            /\ Len(deduplicated[i].resources) <= 3

-----------------------------------------------------------------------------
(* generate_knowledge_graph_from_sources and build_graph_from_sources, from *)
(* the call to the return                                                  *)

\* generate_knowledge_graph_from_sources up to its call of the builder
generate_knowledge_graph_from_sources ==
    /\ pc = "generate_knowledge_graph_from_sources"
    /\ IF sources = <<>>
       THEN /\ result' = ErrorRecord("No sources provided")
            /\ pc' = "returned"
       ELSE /\ pc' = "build_graph_from_sources"
            /\ UNCHANGED result
    /\ UNCHANGED <<sources, topic, all_nodes, graph, centrality_scores, minimal_subgraph,
                   components, mst_edges, component_connectors, subgraph_path, entry>>
    /\ UNCHANGED filterVars
    /\ UNCHANGED dedupVars
    /\ UNCHANGED progressVars
    /\ UNCHANGED workflowVars

\* build_graph_from_sources up to `try:`: the first progress update, which
\* calls the caller's progress callback and may raise with it, and the clearing
\* of the previous build's graph and scores
build_graph_from_sources ==
    /\ pc = "build_graph_from_sources"
    /\ \/ /\ pc' = "raised"
          /\ result' = Raised
          /\ UNCHANGED <<graph, centrality_scores>>
       \/ /\ graph' = EmptyGraph
          /\ centrality_scores' = NoScores
          /\ pc' = "extract_concepts_and_entities"
          /\ UNCHANGED result
    /\ UNCHANGED <<sources, topic, all_nodes, minimal_subgraph,
                   components, mst_edges, component_connectors, subgraph_path, entry>>
    /\ UNCHANGED filterVars
    /\ UNCHANGED dedupVars
    /\ UNCHANGED progressVars
    /\ UNCHANGED workflowVars

MaxPipelineNodes == 3

\* The node lists the extraction may produce: none without sources (the loop
\* over the sources does not run), else none or the nodes of every label
ExtractedNodes(srcs) ==
    IF srcs = <<>> THEN {<<>>}
    ELSE {<<>>, NodesFor(MaxPipelineNodes)}

_extract_concepts_and_entities ==
    /\ pc = "extract_concepts_and_entities"
    /\ all_nodes' \in ExtractedNodes(sources)
    /\ pc' = "build_graph_structure"
    /\ UNCHANGED <<sources, topic, graph, centrality_scores, minimal_subgraph,
                   components, mst_edges, component_connectors, subgraph_path>>
    /\ UNCHANGED filterVars
    /\ UNCHANGED dedupVars
    /\ UNCHANGED progressVars
    /\ UNCHANGED workflowVars
    /\ UNCHANGED pipelineVars

\* _generate_node_embeddings: fills self.node_embeddings, which is not modelled
_generate_node_embeddings ==
    /\ pc = "generate_node_embeddings"
    /\ pc' = "finalize_graph_data"
    /\ UNCHANGED <<sources, topic, all_nodes, graph, centrality_scores, minimal_subgraph,
                   components, mst_edges, component_connectors, subgraph_path>>
    /\ UNCHANGED filterVars
    /\ UNCHANGED dedupVars
    /\ UNCHANGED progressVars
    /\ UNCHANGED workflowVars
    /\ UNCHANGED pipelineVars

\* The dict _finalize_graph_data returns: the graph's nodes and edges, and the
\* minimal subgraph's nodes (those found among the graph's nodes) and edges
finalize_graph_data(G, minimal) ==
    LET present == ~minimal.is_none /\ Len(minimal.G.nodes) > 0
    IN [success |-> TRUE, error |-> "",
        nodes |-> G.nodes,
        edges |-> EdgeList(G, 1),
        minimal_nodes |-> IF present
                          THEN SelectSeq(minimal.G.nodes, LAMBDA n : n \in NodeSet(G))
                          ELSE <<>>,
        minimal_edges |-> IF present THEN EdgeList(minimal.G, 1) ELSE <<>>]

_finalize_graph_data ==
    /\ pc = "finalize_graph_data"
    /\ result' = finalize_graph_data(graph, minimal_subgraph)
    /\ pc' = "returned"
    /\ UNCHANGED <<sources, topic, all_nodes, graph, centrality_scores, minimal_subgraph,
                   components, mst_edges, component_connectors, subgraph_path, entry>>
    /\ UNCHANGED filterVars
    /\ UNCHANGED dedupVars
    /\ UNCHANGED progressVars
    /\ UNCHANGED workflowVars

InTryBlock ==
    {"extract_concepts_and_entities", "build_graph_structure",
     "filter_nodes_by_topic_relevance", "calculate_centrality_metrics",
     "find_minimal_subgraph", "generate_node_embeddings", "finalize_graph_data"}

\* A step inside the try block raises (a progress callback that raises, a
\* malformed node, a networkx error)
StepRaises ==
    /\ pc \in InTryBlock
    /\ pc' = "failed"
    /\ UNCHANGED <<sources, topic, all_nodes, graph, centrality_scores, minimal_subgraph,
                   components, mst_edges, component_connectors, subgraph_path>>
    /\ UNCHANGED filterVars
    /\ UNCHANGED dedupVars
    /\ UNCHANGED progressVars
    /\ UNCHANGED workflowVars
    /\ UNCHANGED pipelineVars

\* except Exception as e: the error record is returned
build_graph_from_sources_except ==
    /\ pc = "failed"
    /\ result' = ErrorRecord("exception")
    /\ pc' = "returned"
    /\ UNCHANGED <<sources, topic, all_nodes, graph, centrality_scores, minimal_subgraph,
                   components, mst_edges, component_connectors, subgraph_path, entry>>
    /\ UNCHANGED filterVars
    /\ UNCHANGED dedupVars
    /\ UNCHANGED progressVars
    /\ UNCHANGED workflowVars

\* generate_knowledge_graph_from_sources's own except block, around the builder
generate_knowledge_graph_from_sources_except ==
    /\ pc = "raised"
    /\ entry = "generate_knowledge_graph_from_sources"
    /\ result' = ErrorRecord("exception")
    /\ pc' = "returned"
    /\ UNCHANGED <<sources, topic, all_nodes, graph, centrality_scores, minimal_subgraph,
                   components, mst_edges, component_connectors, subgraph_path, entry>>
    /\ UNCHANGED filterVars
    /\ UNCHANGED dedupVars
    /\ UNCHANGED progressVars
    /\ UNCHANGED workflowVars

-----------------------------------------------------------------------------
(* SpecPipeline: one call of either entry function, on no sources or on    *)
(* the sources of a graph of at most MaxPipelineNodes nodes                *)

\* In how many sources two labels occur together: none, or the two an edge takes
PipelineCounts == {0, 2}

PipelineSources ==
    {<<>>} \cup UNION {{SourcesFor(n, counts, 1, 2) : counts \in [PairsOf(n) -> PipelineCounts]}
                       : n \in 1..MaxPipelineNodes}

InitPipeline ==
    /\ entry \in {"generate_knowledge_graph_from_sources", "build_graph_from_sources"}
    /\ pc = entry
    /\ result = NoResult
    /\ sources \in PipelineSources
    /\ topic \in {<<>>, <<"a", " ", "b">>}
    /\ all_nodes = <<>>
    /\ graph = EmptyGraph
    /\ centrality_scores = NoScores
    /\ minimal_subgraph = None
    /\ components = <<>>
    /\ mst_edges = EmptyUGraph
    /\ component_connectors = <<>>
    /\ subgraph_path = "none"
    /\ topic_config \in {TopicRelevanceConfig,
                         [TopicRelevanceConfig EXCEPT !.max_nodes_before_filtering = 0]}
    /\ \/ sentence_transformer = FALSE /\ SKLEARN_AVAILABLE = TRUE
       \/ sentence_transformer = TRUE /\ SKLEARN_AVAILABLE = FALSE
    /\ current_node_count = 0
    /\ relevance_scores = Scoring("none", NoScores)
    /\ filter_path = "none"
    /\ DedupIdle
    /\ WorkflowIdle
    /\ ProgressIdle

NextPipeline ==
    \/ generate_knowledge_graph_from_sources
    \/ build_graph_from_sources
    \/ _extract_concepts_and_entities
    \/ _build_graph_structure
    \/ _filter_nodes_by_topic_relevance
    \/ _calculate_centrality_metrics
    \/ _find_minimal_subgraph
    \/ _generate_node_embeddings
    \/ _finalize_graph_data
    \/ StepRaises
    \/ build_graph_from_sources_except
    \/ generate_knowledge_graph_from_sources_except

SpecPipeline == InitPipeline /\ [][NextPipeline]_vars

\* A step of the try block either hands over to stage `next` or raises
HandsOverTo(stage, next) == pc = stage => pc' \in {next, "failed"}

\* C17 as stated: the stages run in the order GraphBuilder, CentralityEngine,
\* TopicRelevanceFilter (when there is one), MinimalSubgraphExtractor, each
\* starting when the previous one has finished
C17_CentralityBeforeFilter ==
    [][/\ HandsOverTo("build_graph_structure", "calculate_centrality_metrics")
       /\ pc = "calculate_centrality_metrics"
             => pc' \in {"filter_nodes_by_topic_relevance", "find_minimal_subgraph", "failed"}
       /\ HandsOverTo("filter_nodes_by_topic_relevance", "find_minimal_subgraph")]_vars

\* C17 amended: the stages run in the order GraphBuilder, TopicRelevanceFilter
\* (only when the topic is not blank), CentralityEngine,
\* MinimalSubgraphExtractor, each starting when the previous one has finished;
\* the centrality scores are those of the graph the filter left
C17_FilterBeforeCentrality ==
    [][/\ HandsOverTo("build_graph_structure",
                      IF strip(topic) # <<>> THEN "filter_nodes_by_topic_relevance"
                      ELSE "calculate_centrality_metrics")
       /\ HandsOverTo("filter_nodes_by_topic_relevance", "calculate_centrality_metrics")
       /\ HandsOverTo("calculate_centrality_metrics", "find_minimal_subgraph")
       /\ HandsOverTo("find_minimal_subgraph", "generate_node_embeddings")
       /\ pc = "filter_nodes_by_topic_relevance" => centrality_scores = NoScores]_vars

\* All four stages have run, the filter among them, and the subgraph is an MST
C17_Witness ==
    /\ pc = "generate_node_embeddings"
    /\ strip(topic) # <<>>
    /\ current_node_count > 0
    /\ centrality_scores # NoScores
    /\ subgraph_path = "mst"

\* A call has returned without any step of the build having raised
ReturnedUnraised == pc = "returned" /\ result.error # "exception"

\* C18: a call on an empty source list, or one whose extraction found no
\* node, returns an empty graph and no failure
C18_EmptyInputNotAnError ==
    ReturnedUnraised /\ (sources = <<>> \/ all_nodes = <<>>)
        => /\ result.success
           /\ result.nodes = <<>>
           /\ result.edges = <<>>

\* C19: build_graph_from_sources never raises to its caller; what it returns
\* is a result with success = true, or an error record with success = false
\* and no nodes and no edges
C19_NeverRaises ==
    /\ pc # "raised"
    /\ pc = "returned" /\ entry = "build_graph_from_sources"
          => \/ result.success
             \/ /\ result.error \notin {"", "pending", "raised"}
                /\ result.nodes = <<>>
                /\ result.edges = <<>>

-----------------------------------------------------------------------------
(* The direction of the minimal subgraph's edges, under SpecMST *)

\* D has a path of one or more edges from x to y
RECURSIVE Reaches(_, _, _, _)
Reaches(D, x, y, steps) ==
    \/ has_edge(D, x, y)
    \/ /\ steps > 1
       /\ \E z \in NodeSet(D) : has_edge(D, x, z) /\ Reaches(D, z, y, steps - 1)

\* nx.is_directed_acyclic_graph(D)
is_directed_acyclic_graph(D) ==
    \A x \in NodeSet(D) : ~Reaches(D, x, x, Len(D.nodes))

TwoCycles(D) ==
    {e \in NodeSet(D) \X NodeSet(D) :
        e[1] # e[2] /\ has_edge(D, e[1], e[2]) /\ has_edge(D, e[2], e[1])}

\* The tree edges by kind, each as a pair (u, v) in either order
TreeEdges(kind) ==
    {e \in NodeSet(mst_edges) \X NodeSet(mst_edges) :
        /\ {e[1], e[2]} \in DOMAIN mst_edges.edata
        /\ ConnectionType(mst_edges.edata[{e[1], e[2]}]) = kind}

\* C20: when direction is reconstructed, every spanning-tree edge that comes
\* from the full graph is in the minimal subgraph in exactly one direction,
\* one in which the full graph has it; every synthetic inter-component edge
\* is there in both directions; so with two or more components the minimal
\* subgraph has 2-cycles and is not a directed acyclic graph
C20_DirectionReconstructed ==
    subgraph_path = "mst" =>
        LET D == minimal_subgraph.G
        IN /\ \A e \in TreeEdges("intra_component") :
                 /\ has_edge(D, e[1], e[2]) \/ has_edge(D, e[2], e[1])
                 /\ e[1] # e[2] => ~(has_edge(D, e[1], e[2]) /\ has_edge(D, e[2], e[1]))
                 /\ has_edge(D, e[1], e[2]) => has_edge(graph, e[1], e[2])
           /\ \A e \in TreeEdges("inter_component") :
                 has_edge(D, e[1], e[2]) /\ has_edge(D, e[2], e[1])
           /\ Len(components) >= 2 =>
                 /\ TwoCycles(D) # {}
                 /\ ~is_directed_acyclic_graph(D)

\* Two components or more, joined by a synthetic edge, one of them with a tree
\* edge the full graph has in both directions and the minimal subgraph in one
C20_Witness ==
    /\ subgraph_path = "mst"
    /\ Len(components) >= 2
    /\ TreeEdges("inter_component") # {}
    /\ \E e \in TreeEdges("intra_component") :
          /\ has_edge(graph, e[1], e[2]) /\ has_edge(graph, e[2], e[1])
          /\ has_edge(minimal_subgraph.G, e[1], e[2])
          /\ ~has_edge(minimal_subgraph.G, e[2], e[1])

-----------------------------------------------------------------------------
(* The connectors of the multi-component case, under SpecMST *)

\* The degree of n inside its own component's spanning tree
IntraDegree(n) ==
    Cardinality({m \in NodeSet(mst_edges) :
                    /\ {n, m} \in DOMAIN mst_edges.edata
                    /\ ConnectionType(mst_edges.edata[{n, m}]) = "intra_component"})

\* The unweighted degree centrality of n within the spanning tree of component c
LocalCentrality(c, n) ==
    IF Cardinality(c) <= 1 THEN Frac(1, 1) ELSE Frac(IntraDegree(n), Cardinality(c) - 1)

\* The place of n in the graph's node order
NodeIndex(n) == CHOOSE i \in DOMAIN graph.nodes : graph.nodes[i] = n

\* The node of component c with the highest local centrality, the earliest in
\* the graph's node order among equals
StableConnector(c) ==
    CHOOSE n \in c :
        \A m \in c \ {n} :
            \/ FracLess(LocalCentrality(c, m), LocalCentrality(c, n))
            \/ /\ ~FracLess(LocalCentrality(c, n), LocalCentrality(c, m))
               /\ NodeIndex(n) < NodeIndex(m)

\* The component whose connector has the highest local centrality, the
\* earliest component among equals
StableHub ==
    CHOOSE i \in DOMAIN components :
        LET ci == LocalCentrality(components[i], StableConnector(components[i]))
        IN \A j \in DOMAIN components \ {i} :
              LET cj == LocalCentrality(components[j], StableConnector(components[j]))
              IN FracLess(cj, ci) \/ (~FracLess(ci, cj) /\ i < j)

\* C21: with several components, each component's connector is its node of
\* highest degree centrality within the component's own spanning tree, the
\* hub is the connector with the highest such centrality, and ties go to the
\* earlier node and the earlier component
C21_ConnectorsByLocalCentrality ==
    subgraph_path \in {"mst", "fallback"} /\ Len(components) >= 2 =>
        /\ \A k \in DOMAIN component_connectors :
              component_connectors[k].node
                  = StableConnector(components[component_connectors[k].comp])
        /\ component_connectors[1].comp = StableHub

-----------------------------------------------------------------------------
(* What the filter leaves on the graph, under SpecFilter *)

\* Node n carries the annotation topic_relevance = score
AnnotatedWith(n, score) ==
    /\ "topic_relevance" \in DOMAIN graph.data[n]
    /\ graph.data[n]["topic_relevance"] = score

\* The nodes the filter scored that are no longer in the graph
RemovedNodes == DOMAIN relevance_scores.scores \ NodeSet(graph)

\* No edge and no adjacency entry of the graph mentions a node of gone
FreeOf(gone) ==
    /\ \A e \in DOMAIN graph.edata : e[1] \notin gone /\ e[2] \notin gone
    /\ \A n \in NodeSet(graph) : Range(graph.succ[n]) \cap gone = {}
    /\ DOMAIN graph.data \cap gone = {}

\* C22: after a filtering run that applies, every surviving node carries a
\* topic_relevance annotation equal to its score, also when no node had to be
\* removed, and every removed node is gone with all its incident edges
C22_SurvivorsAnnotated ==
    FilterApplied =>
        /\ \A n \in NodeSet(graph) : AnnotatedWith(n, relevance_scores.scores[n])
        /\ FreeOf(RemovedNodes)

-----------------------------------------------------------------------------
(* What a merge and a drop do to the records, under SpecDedup *)

\* concept_name.lower().strip() of a record's name
NormalizedName(c) == strip(Lower(strip(c.name)))

\* The second record of the sorted input is a fuzzy duplicate of the first:
\* neither name is blank, the names differ when normalised, and
\* _are_similar_concepts relates them
FuzzyPair(kept, concept) ==
    /\ strip(kept.name) # <<>>
    /\ strip(concept.name) # <<>>
    /\ NormalizedName(concept) # NormalizedName(kept)
    /\ _are_similar_concepts(NormalizedName(concept), strip(Lower(kept.name)))

LongerName(kept, concept) ==
    IF Len(strip(concept.name)) > Len(kept.name) THEN strip(concept.name) ELSE kept.name

\* C23: on a fuzzy match the kept record is updated as on an exact match
\* (source references the union capped at 5, resources the merged list of
\* both records capped at 3, time estimate the maximum) and its name becomes
\* the longer of the two names; stated for an input of two records
C23_FuzzyMergesLikeExact ==
    dedup_calls >= 1 /\ Len(concepts) = 2 =>
        LET sorted_concepts == SortedByImportance(<<>>, concepts, 1)
            kept == sorted_concepts[1]
            concept == sorted_concepts[2]
        IN FuzzyPair(kept, concept) =>
              /\ Len(deduplicated) = 1
              /\ deduplicated[1].source_references
                    \in FirstOfSet(kept.source_references \cup concept.source_references, 5)
              /\ deduplicated[1].resources
                    = Take(MergeResources(kept.resources, concept.resources, 1), 3)
              /\ deduplicated[1].time_estimate
                    = Max2(kept.time_estimate, concept.time_estimate)
              /\ deduplicated[1].name = LongerName(kept, concept)

-----------------------------------------------------------------------------
(* SpecWorkflow: one run of the compiled workflow                          *)

WorkflowPreferences == {{"reliable"}, {"unreliable"}, {"reliable", "unreliable"}}

InitWorkflow ==
    /\ \E prefs \in WorkflowPreferences : state = SourceCollectionState(prefs, SearchLimit)
    /\ node = "initialize"
    /\ route = "none"
    /\ pool = NoPool
    /\ fallback_results = NoFallback
    /\ pc = "idle"
    /\ sources = <<>>
    /\ all_nodes = <<>>
    /\ topic = <<>>
    /\ graph = EmptyGraph
    /\ centrality_scores = NoScores
    /\ minimal_subgraph = None
    /\ components = <<>>
    /\ mst_edges = EmptyUGraph
    /\ component_connectors = <<>>
    /\ subgraph_path = "none"
    /\ FilterIdle
    /\ DedupIdle
    /\ PipelineIdle
    /\ ProgressIdle

NextWorkflow ==
    \/ initialize_node
    \/ generate_queries_node
    \/ search_sources_node
    \/ search_single_query_sync
    \/ increment_error_count
    \/ search_sources_node_return
    \/ deduplicate_sources_node
    \/ score_reliability_node
    \/ score_single_result_sync
    \/ score_reliability_node_return
    \/ stream_results_node
    \/ filter_results_node
    \/ finalize_node
    \/ error_handler_node

SpecWorkflow == InitWorkflow /\ [][NextWorkflow]_vars

\* C24: once finalize or error_handler has run, should_continue returns END
\* whatever the error count, and the run ends there
C24_EndAfterLastNode ==
    state.current_step \in {"finalize", "error_handler"} =>
        /\ route = END
        /\ node = END

-----------------------------------------------------------------------------
(* run_sequential_fallback (PythonAPIService.py) next to the workflow's    *)
(* filter step                                                             *)

\* Step 4 of run_sequential_fallback: the if / elif / elif over every result
RECURSIVE FallbackFilter(_, _, _, _)
FallbackFilter(filtered_results, scored_results, source_preferences, i) ==
    IF Evaluated(filtered_results) /\ i > Len(scored_results) THEN filtered_results
    ELSE LET score == scored_results[i].reliability_score
             keeps == IF "reliable" \in source_preferences /\ score >= 60 THEN TRUE
                      ELSE IF "unreliable" \in source_preferences /\ score <= 40 THEN TRUE
                      ELSE score >= 60 \/ score <= 40
         IN FallbackFilter(IF keeps THEN Append(filtered_results, scored_results[i])
                           ELSE filtered_results,
                           scored_results, source_preferences, i + 1)

\* run_sequential_fallback on the scored results the workflow has: a step
\* before the filter fails and nothing is returned, or the filter runs
run_sequential_fallback ==
    /\ ~fallback_results.returned
    /\ \/ fallback_results' = [returned |-> TRUE, success |-> FALSE, results |-> <<>>]
       \/ fallback_results' =
             [returned |-> TRUE, success |-> TRUE,
              results |-> FallbackFilter(<<>>, state.scored_results,
                                         state.source_preferences, 1)]
    /\ UNCHANGED <<state, node, route, pool>>
    /\ UNCHANGED builderVars
    /\ UNCHANGED filterVars
    /\ UNCHANGED dedupVars
    /\ UNCHANGED progressVars
    /\ UNCHANGED pipelineVars

\* The most scored results of a run
MaxScored == 3

\* Scores at, next to and away from the two thresholds
FallbackScores == {0, 40, 41, 50, 59, 60, 100}

FallbackPreferences ==
    {{"reliable"}, {"unreliable"}, {"reliable", "unreliable"}, {"insider"}}

\* The workflow has scored and streamed its results and its filter step is next
InitFallback ==
    /\ \E prefs \in FallbackPreferences :
       \E scores \in SeqsUpTo(FallbackScores, MaxScored) :
          LET scored == [i \in DOMAIN scores |-> ScoredResult(scores[i])]
          IN state = [SourceCollectionState(prefs, SearchLimit) EXCEPT
                        !.current_step = "stream_results",
                        !.search_queries = Queries,
                        !.raw_results = [i \in DOMAIN scores |-> RawResult],
                        !.scored_results = scored,
                        !.streamed_results = SortByReliability(<<>>, scored, 1)]
    /\ node = "filter_results"
    /\ route = "filter_results"
    /\ pool = NoPool
    /\ fallback_results = NoFallback
    /\ pc = "idle"
    /\ sources = <<>>
    /\ all_nodes = <<>>
    /\ topic = <<>>
    /\ graph = EmptyGraph
    /\ centrality_scores = NoScores
    /\ minimal_subgraph = None
    /\ components = <<>>
    /\ mst_edges = EmptyUGraph
    /\ component_connectors = <<>>
    /\ subgraph_path = "none"
    /\ FilterIdle
    /\ DedupIdle
    /\ PipelineIdle
    /\ ProgressIdle

NextFallback ==
    \/ filter_results_node
    \/ finalize_node
    \/ run_sequential_fallback

SpecFallback == InitFallback /\ [][NextFallback]_vars

\* C25: for the same scored results and the same source preferences,
\* run_sequential_fallback keeps exactly the results filter_results_node keeps
C25_FallbackKeepsTheSame ==
    /\ fallback_results.returned
    /\ fallback_results.success
    /\ state.current_step \in {"filter_results", "finalize"}
    => SortByReliability(<<>>, fallback_results.results, 1) = state.filtered_results

-----------------------------------------------------------------------------
(* SpecReuse: one KnowledgeGraphBuilder serving build_graph_from_sources   *)
(* calls one after the other                                               *)

\* The caller calls build_graph_from_sources on the same builder again, with
\* new sources: the locals of the call that returned are gone, the builder's
\* attributes are as that call left them
build_graph_from_sources_called_again ==
    /\ pc = "returned"
    /\ entry = "build_graph_from_sources"
    /\ sources' \in PipelineSources
    /\ pc' = "build_graph_from_sources"
    /\ result' = NoResult
    /\ all_nodes' = <<>>
    /\ components' = <<>>
    /\ mst_edges' = EmptyUGraph
    /\ component_connectors' = <<>>
    /\ subgraph_path' = "none"
    /\ relevance_scores' = Scoring("none", NoScores)
    /\ filter_path' = "none"
    /\ UNCHANGED <<topic, graph, centrality_scores, minimal_subgraph, entry>>
    /\ UNCHANGED <<topic_config, sentence_transformer, SKLEARN_AVAILABLE,
                   current_node_count>>
    /\ UNCHANGED dedupVars
    /\ UNCHANGED progressVars
    /\ UNCHANGED workflowVars

\* A new builder (__init__) and its first call
InitReuse ==
    /\ entry = "build_graph_from_sources"
    /\ pc = entry
    /\ result = NoResult
    /\ sources \in PipelineSources
    /\ topic \in {<<>>, <<"a", " ", "b">>}
    /\ all_nodes = <<>>
    /\ graph = EmptyGraph
    /\ centrality_scores = NoScores
    /\ minimal_subgraph = None
    /\ components = <<>>
    /\ mst_edges = EmptyUGraph
    /\ component_connectors = <<>>
    /\ subgraph_path = "none"
    /\ FilterIdle
    /\ DedupIdle
    /\ WorkflowIdle
    /\ ProgressIdle

NextReuse ==
    \/ build_graph_from_sources
    \/ _extract_concepts_and_entities
    \/ _build_graph_structure
    \/ _filter_nodes_by_topic_relevance
    \/ _calculate_centrality_metrics
    \/ _find_minimal_subgraph
    \/ _generate_node_embeddings
    \/ _finalize_graph_data
    \/ StepRaises
    \/ build_graph_from_sources_except
    \/ build_graph_from_sources_called_again

SpecReuse == InitReuse /\ [][NextReuse]_vars

\* C26: the minimal subgraph a call returns comes from that call's graph only:
\* its nodes are nodes of the returned graph and its edges join nodes of the
\* returned graph, also when the returned graph has no nodes
C26_MinimalFromThisCall ==
    pc = "returned" /\ result.success =>
        /\ Range(result.minimal_nodes) \subseteq Range(result.nodes)
        /\ \A e \in Range(result.minimal_edges) :
              /\ e[1] \in Range(result.nodes)
              /\ e[2] \in Range(result.nodes)

-----------------------------------------------------------------------------
(* Records that leave no trace, under SpecDedup *)

\* The returned record `kept` accounts for the input record `concept`: it is
\* the record itself, or it has the record's source references (or is at the
\* cap of 5) and a time estimate of at least the record's
AccountsFor(kept, concept) ==
    \/ kept = concept
    \/ /\ \/ concept.source_references \subseteq kept.source_references
          \/ Cardinality(kept.source_references) = 5
       /\ kept.time_estimate >= concept.time_estimate

\* C27: every input record with a non-blank name is kept in the returned list
\* or was merged into a record of it, which then has the record's source
\* references (up to the cap of 5) and at least its time estimate
C27_NothingDroppedUnmerged ==
    dedup_calls >= 1 =>
        \A i \in DOMAIN concepts :
            strip(concepts[i].name) # <<>> =>
                \E j \in DOMAIN deduplicated : AccountsFor(deduplicated[j], concepts[i])

-----------------------------------------------------------------------------
(* The nodes of the minimal subgraph, under SpecMST *)

\* The nodes of the full graph that no edge of it touches
IsolatedNodes(G) ==
    {n \in NodeSet(G) : \A e \in EdgeSet(G) : e[1] # n /\ e[2] # n}

\* C28: on the spanning-tree path the minimal subgraph has exactly the nodes of
\* the graph it was extracted from, each once, the nodes without an edge too
C28_AllNodesRetained ==
    ExtractedByMst =>
        /\ NodeSet(minimal_subgraph.G) = NodeSet(graph)
        /\ Len(minimal_subgraph.G.nodes) = Len(graph.nodes)

\* A graph with an edge and with a node that no edge touches has gone through
\* the spanning-tree path, and the minimal subgraph has that node
C28_Witness ==
    /\ ExtractedByMst
    /\ IsolatedNodes(graph) # {}
    /\ EdgeSet(graph) # {}
    /\ IsolatedNodes(graph) \subseteq NodeSet(minimal_subgraph.G)

-----------------------------------------------------------------------------
(* SpecProgress: the _update_progress calls of one build_graph_from_sources *)
(* call, in the order the call makes them.  A progress value is a fraction. *)

\* self._update_progress(progress, message): the callback and the status file
\* get the value
_update_progress(progress) == progress_updates' = Append(progress_updates, progress)

\* The value build_graph_from_sources reports when it comes to a stage
StageProgress(stage) ==
    CASE stage = "build_graph_from_sources" -> Frac(0, 100)
      [] stage = "extract_concepts_and_entities" -> Frac(10, 100)
      [] stage = "build_graph_structure" -> Frac(25, 100)
      [] stage = "filter_nodes_by_topic_relevance" -> Frac(40, 100)
      [] stage = "calculate_centrality_metrics" -> Frac(50, 100)
      [] stage = "find_minimal_subgraph" -> Frac(65, 100)
      [] stage = "generate_node_embeddings" -> Frac(80, 100)
      [] stage = "finalize_graph_data" -> Frac(90, 100)
      [] stage = "complete" -> Frac(100, 100)

\* The stage that follows a stage; the filter stage is there for a non-blank topic
StageAfter(stage) ==
    CASE stage = "build_graph_from_sources" -> "extract_concepts_and_entities"
      [] stage = "extract_concepts_and_entities" -> "processing_sources"
      [] stage = "build_graph_structure" ->
            IF strip(topic) # <<>> THEN "filter_nodes_by_topic_relevance"
            ELSE "calculate_centrality_metrics"
      [] stage = "filter_nodes_by_topic_relevance" -> "calculate_centrality_metrics"
      [] stage = "calculate_centrality_metrics" -> "find_minimal_subgraph"
      [] stage = "find_minimal_subgraph" -> "generate_node_embeddings"
      [] stage = "generate_node_embeddings" -> "finalize_graph_data"
      [] stage = "finalize_graph_data" -> "complete"
      [] stage = "complete" -> "returned"

ProgressStages ==
    {"build_graph_from_sources", "extract_concepts_and_entities", "build_graph_structure",
     "filter_nodes_by_topic_relevance", "calculate_centrality_metrics",
     "find_minimal_subgraph", "generate_node_embeddings", "finalize_graph_data",
     "complete"}

\* build_graph_from_sources comes to a stage and reports it
ReportStage ==
    /\ pc \in ProgressStages
    /\ _update_progress(StageProgress(pc))
    /\ pc' = StageAfter(pc)
    /\ source_index' = 0
    /\ UNCHANGED <<sources, topic, all_nodes, graph, centrality_scores, minimal_subgraph,
                   components, mst_edges, component_connectors, subgraph_path>>
    /\ UNCHANGED filterVars
    /\ UNCHANGED dedupVars
    /\ UNCHANGED pipelineVars
    /\ UNCHANGED workflowVars

\* for i, source in enumerate(sources): progress = 0.1 + (i / len(sources)) * 0.2
ReportSource ==
    /\ pc = "processing_sources"
    /\ source_index < Len(sources)
    /\ _update_progress(Frac(10 * Len(sources) + 20 * source_index, 100 * Len(sources)))
    /\ source_index' = source_index + 1
    /\ UNCHANGED builderVars
    /\ UNCHANGED filterVars
    /\ UNCHANGED dedupVars
    /\ UNCHANGED pipelineVars
    /\ UNCHANGED workflowVars

\* The loop over the sources is over: _extract_concepts_and_entities returns
SourcesProcessed ==
    /\ pc = "processing_sources"
    /\ source_index = Len(sources)
    /\ pc' = "build_graph_structure"
    /\ UNCHANGED <<sources, topic, all_nodes, graph, centrality_scores, minimal_subgraph,
                   components, mst_edges, component_connectors, subgraph_path>>
    /\ UNCHANGED filterVars
    /\ UNCHANGED dedupVars
    /\ UNCHANGED pipelineVars
    /\ UNCHANGED workflowVars
    /\ UNCHANGED progressVars

\* The most sources of a call
MaxProgressSources == 6

InitProgress ==
    /\ pc = "build_graph_from_sources"
    /\ \E n \in 0..MaxProgressSources :
          sources = Copies([content |-> <<"a">>, title |-> <<>>], n)
    /\ topic \in {<<>>, <<" ">>, <<"a", " ", "b">>}
    /\ all_nodes = <<>>
    /\ graph = EmptyGraph
    /\ centrality_scores = NoScores
    /\ minimal_subgraph = None
    /\ components = <<>>
    /\ mst_edges = EmptyUGraph
    /\ component_connectors = <<>>
    /\ subgraph_path = "none"
    /\ FilterIdle
    /\ DedupIdle
    /\ PipelineIdle
    /\ WorkflowIdle
    /\ ProgressIdle

NextProgress ==
    \/ ReportStage
    \/ ReportSource
    \/ SourcesProcessed
    \/ StepRaises

SpecProgress == InitProgress /\ [][NextProgress]_vars

\* a <= b for two fractions
FracAtMost(a, b) == ~FracLess(b, a)

\* C29: when a build_graph_from_sources call has gone through, the values it
\* reported start at 0.0, end at 1.0 and never go down
C29_ProgressNeverGoesDown ==
    pc = "returned" =>
        /\ progress_updates[1] = Frac(0, 100)
        /\ progress_updates[Len(progress_updates)] = Frac(100, 100)
        /\ \A k \in 1..(Len(progress_updates) - 1) :
              FracAtMost(progress_updates[k], progress_updates[k + 1])

-----------------------------------------------------------------------------
(* The error counter the worker threads share, under SpecWorkflow *)

\* C30: when every worker thread of the pool of search_sources_node or of
\* score_reliability_node has finished, error_count is what it was when the
\* pool started plus the number of searches or scorings that failed
C30_NoIncrementLost ==
    PoolFinished("search") \/ PoolFinished("score") =>
        state.error_count = pool.start + pool.failed

====
